---- MODULE Spec2Model ----
(***************************************************************************)
(* Model of the egressgateway agent's policy reconciliation engine         *)
(* (pkg/agent/police.go): the per-policy IP sets, the mark / SNAT rule     *)
(* chains, the static glue rules and the cluster-ignore sets.              *)
(*                                                                         *)
(* Text values that the code parses are modelled structurally:             *)
(*   - an address or CIDR string is a record [fam, ip, plen]: fam is 4 or  *)
(*     6 (0 for a string that is no address), ip the tuple of its groups   *)
(*     (four octets, or eight 16-bit groups), plen the number after "/"    *)
(*     (NoPrefix for a string without "/");                                *)
(*   - a mark string is the sequence of its characters.                    *)
(* Strings the code only copies or compares (names, EIP addresses) stay    *)
(* strings.                                                                *)
(***************************************************************************)
EXTENDS Integers, Sequences, FiniteSets, TLC

\* ------------------------------------------------------------------------
\* Generic helpers
\* ------------------------------------------------------------------------

RECURSIVE Pow2(_)
Pow2(n) == IF n <= 0 THEN 1 ELSE 2 * Pow2(n - 1)

Range(s) == { s[i] : i \in 1..Len(s) }

\* The sequences that enumerate the finite set S once each (an iteration
\* order of a Go map whose key set is S).
Orders(S) ==
    { o \in [1..Cardinality(S) -> S] : \A x \in S : \E i \in DOMAIN o : o[i] = x }

RECURSIVE SetToSeq(_)
SetToSeq(S) ==
    IF S = {} THEN <<>>
    ELSE LET x == CHOOSE y \in S : TRUE IN <<x>> \o SetToSeq(S \ {x})

\* ------------------------------------------------------------------------
\* Addresses and CIDR strings (package net, as the agent uses it)
\* ------------------------------------------------------------------------

NoPrefix == 0 - 1

V4Bits == 32
V6Bits == 128

AddrBits(fam) == IF fam = 4 THEN V4Bits ELSE V6Bits
GroupBits(fam) == IF fam = 4 THEN 8 ELSE 16

IsAddr(s) == s.fam \in {4, 6}

\* One group of an address under a mask that keeps its first `keep` bits.
MaskGroup(v, keep, w) ==
    IF keep >= w THEN v
    ELSE IF keep <= 0 THEN 0
    ELSE v - (v % Pow2(w - keep))

\* ip.Mask(net.CIDRMask(plen, bits))
MaskIP(fam, ip, plen) ==
    [i \in 1..Len(ip) |-> MaskGroup(ip[i], plen - (i - 1) * GroupBits(fam), GroupBits(fam))]

\* net.ParseCIDR(s): an error unless s is "<address>/<length>" with a length
\* the family allows; otherwise the address and the network (masked
\* address, same length).  NetString is ipNet.String().
ParseCIDR(s) ==
    IF IsAddr(s) /\ s.plen >= 0 /\ s.plen <= AddrBits(s.fam)
    THEN [err |-> FALSE, fam |-> s.fam,
          NetString |-> [fam |-> s.fam, ip |-> MaskIP(s.fam, s.ip, s.plen), plen |-> s.plen]]
    ELSE [err |-> TRUE, fam |-> 0, NetString |-> s]

\* net.ParseIP(s): nil unless s is a bare address.
ParseIPOk(s) == IsAddr(s) /\ s.plen = NoPrefix

\* strings.HasSuffix(s, "/32"), strings.HasSuffix(s, "/128"): the text ends
\* in that suffix exactly when the number after its "/" is 32, resp. 128.
HasSuffix32(s) == s.plen = V4Bits
HasSuffix128(s) == s.plen = V6Bits
TrimPrefixLen(s) == [s EXCEPT !.plen = NoPrefix]

\* ------------------------------------------------------------------------
\* getDstCIDR, findDiff
\* ------------------------------------------------------------------------

MapSeq(s, F(_)) == [i \in 1..Len(s) |-> F(s[i])]

IsV4Net(c) == c.fam = 4
IsV6Net(c) == c.fam # 4

\* getDstCIDR: the first entry that does not parse as a CIDR fails the
\* whole call; otherwise the networks, split by family, in list order.
\* A variant of getDstCIDR that leaves out the entries it cannot parse
\* instead of failing.
getDstCIDR_SkipMalformed(list) ==
    LET Parsed(item) == ~ParseCIDR(item).err
        NetOf(item) == ParseCIDR(item).NetString
        nets == MapSeq(SelectSeq(list, Parsed), NetOf)
    IN [err |-> FALSE, v4 |-> SelectSeq(nets, IsV4Net), v6 |-> SelectSeq(nets, IsV6Net)]

getDstCIDR(list) ==
    IF \E i \in 1..Len(list) : ParseCIDR(list[i]).err
    THEN [err |-> TRUE, v4 |-> <<>>, v6 |-> <<>>]
    ELSE LET NetOf(item) == ParseCIDR(item).NetString
             nets == MapSeq(list, NetOf)
         IN [err |-> FALSE, v4 |-> SelectSeq(nets, IsV4Net), v6 |-> SelectSeq(nets, IsV6Net)]

\* The rewrite findDiff applies to each entry of the new list.
NormalizeNew(s) ==
    IF HasSuffix32(s) THEN TrimPrefixLen(s)
    ELSE IF HasSuffix128(s)
         THEN (IF ParseIPOk(TrimPrefixLen(s)) THEN TrimPrefixLen(s) ELSE s)
    ELSE IF ~ParseCIDR(s).err THEN ParseCIDR(s).NetString
    ELSE s

findDiff(oldList, newList) ==
    LET newCopy == MapSeq(newList, NormalizeNew)
        NotInOld(s) == s \notin Range(oldList)
        NotInNew(s) == s \notin Range(newCopy)
    IN [toAdd |-> SelectSeq(newCopy, NotInOld), toDel |-> SelectSeq(oldList, NotInNew)]

\* ------------------------------------------------------------------------
\* parseMark
\* ------------------------------------------------------------------------

\* A uint32 is kept as its two 16-bit halves.
Half == Pow2(16)

U32(hi, lo) == [hi |-> hi, lo |-> lo]

HexVal(c) ==
    CASE c = "0" -> 0 [] c = "1" -> 1 [] c = "2" -> 2 [] c = "3" -> 3
      [] c = "4" -> 4 [] c = "5" -> 5 [] c = "6" -> 6 [] c = "7" -> 7
      [] c = "8" -> 8 [] c = "9" -> 9
      [] c \in {"a", "A"} -> 10 [] c \in {"b", "B"} -> 11 [] c \in {"c", "C"} -> 12
      [] c \in {"d", "D"} -> 13 [] c \in {"e", "E"} -> 14 [] c \in {"f", "F"} -> 15
      [] OTHER -> 0 - 1

\* strings.ReplaceAll(mark, "0x", "")
RECURSIVE ReplaceAll0x(_)
ReplaceAll0x(s) ==
    IF Len(s) = 0 THEN <<>>
    ELSE IF Len(s) >= 2 /\ s[1] = "0" /\ s[2] = "x" THEN ReplaceAll0x(SubSeq(s, 3, Len(s)))
    ELSE <<s[1]>> \o ReplaceAll0x(Tail(s))

\* strconv.ParseUint(s, 16, 32): the digits accumulated from the left; a
\* character that is no hex digit is a syntax error, a value above 2^32-1 a
\* range error.
RECURSIVE ParseUint16(_, _)
ParseUint16(s, acc) ==
    IF acc.err \/ Len(s) = 0 THEN acc
    ELSE LET d == HexVal(s[1])
             lo == acc.lo * 16 + (IF d < 0 THEN 0 ELSE d)
             hi == acc.hi * 16 + (lo \div Half)
         IN IF d < 0 \/ hi >= Half
            THEN [err |-> TRUE, hi |-> 0, lo |-> 0]
            ELSE ParseUint16(Tail(s), [err |-> FALSE, hi |-> hi, lo |-> lo % Half])

\* strconv.ParseInt(s, 16, 32) followed by the conversion uint32(i64).
ParseInt16toU32(s) ==
    LET signed == Len(s) > 0 /\ s[1] \in {"+", "-"}
        neg == Len(s) > 0 /\ s[1] = "-"
        digits == IF signed THEN Tail(s) ELSE s
        un == ParseUint16(digits, [err |-> FALSE, hi |-> 0, lo |-> 0])
        cutoff == Half \div 2
    IN IF Len(digits) = 0 \/ un.err THEN [err |-> TRUE, val |-> U32(0, 0)]
       ELSE IF ~neg /\ un.hi >= cutoff THEN [err |-> TRUE, val |-> U32(0, 0)]
       ELSE IF neg /\ (un.hi > cutoff \/ (un.hi = cutoff /\ un.lo > 0))
            THEN [err |-> TRUE, val |-> U32(0, 0)]
       ELSE IF ~neg \/ (un.hi = 0 /\ un.lo = 0) THEN [err |-> FALSE, val |-> U32(un.hi, un.lo)]
       ELSE [err |-> FALSE,
             val |-> U32((Half - 1 - un.hi + (IF un.lo = 0 THEN 1 ELSE 0)) % Half,
                         (Half - un.lo) % Half)]

parseMark(mark) == ParseInt16toU32(ReplaceAll0x(mark))

\* ------------------------------------------------------------------------
\* Set names and rules
\* ------------------------------------------------------------------------

EgressClusterCIDRIPv4 == "egress-cluster-cidr-ipv4"
EgressClusterCIDRIPv6 == "egress-cluster-cidr-ipv6"

MarkChain == "EGRESSGATEWAY-MARK-REQUEST"
SnatChain == "EGRESSGATEWAY-SNAT-EIP"

\* fmt.Sprintf("%x", sha1.Sum([]byte(name))): the 40 hex characters of the
\* SHA-1 digest of a policy key, as a table over the keys the model uses
\* (the namespaces "", ns1, ns2, kube-system and four policy names).
Sha1Hex(name) ==
    CASE name = "app" -> "7d1043473d55bfa90e8530d35801d4e381bc69f0"
      [] name = "web" -> "ca84d1343b96baa8137c943ed1860e522cacb238"
      [] name = "db" -> "0352a8acc949c7df21fec16e566ba9a74e797a97"
      [] name = "a-very-long-policy-name-0123456789" -> "60f5c78f1db4093dbb1d261525d3737156944d23"
      [] name = "ns1-app" -> "d8934174b5b16becd8661af900ef5a9fed315df0"
      [] name = "ns1-web" -> "49b3d1bab84ff1bdc4292e01e707c466935f905a"
      [] name = "ns1-db" -> "0a186fe7801932cc2bd2f1274fd030b396a53d41"
      [] name = "ns1-a-very-long-policy-name-0123456789" -> "2db3e3fc3763056fae5692176f4686946e1bb193"
      [] name = "ns2-app" -> "58c5533124d0d1cd783eef06ddbb65fbb3b4e813"
      [] name = "ns2-web" -> "a3b9cde68b8be1407e21f607e0300c67bfbbaeec"
      [] name = "ns2-db" -> "5adc347c19735343fee868e47fbc55237d004507"
      [] name = "ns2-a-very-long-policy-name-0123456789" -> "4caa27bd82586e970fd8ce76cb26c9a4980110db"
      [] name = "kube-system-app" -> "c5efc235db56c8da6c4dc700bad28649cdab2ebd"
      [] name = "kube-system-web" -> "57de466568a5e89572735621e413945dbf9da46b"
      [] name = "kube-system-db" -> "88554c854c94ab367d5c8e95d22b810c8ce1e86d"
      [] name = "kube-system-a-very-long-policy-name-0123456789" -> "6d3a1f9f0d227c8c28e0092f10ed537a6dbd4a36"

\* A variant of formatIPSetName that keeps one character more of the digest.
formatIPSetName_OneMore(prefix, name) == prefix \o SubSeq(Sha1Hex(name), 1, 32 - Len(prefix))

formatIPSetName(prefix, name) == prefix \o SubSeq(Sha1Hex(name), 1, 31 - Len(prefix))

IPv4 == "IPv4"
IPv6 == "IPv6"
IPSrc == "IPSrc"
IPDst == "IPDst"

HashFamily(stack) == IF stack = IPv4 THEN "inet" ELSE "inet6"

buildIPSetNamesByPolicy(ns, name0, enableIPv4, enableIPv6) ==
    LET name == IF ns # "" THEN ns \o "-" \o name0 ELSE name0
    IN (IF enableIPv4
        THEN << [Name |-> formatIPSetName("egress-src-v4-", name), Stack |-> IPv4, Kind |-> IPSrc],
                [Name |-> formatIPSetName("egress-dst-v4-", name), Stack |-> IPv4, Kind |-> IPDst] >>
        ELSE <<>>)
       \o
       (IF enableIPv6
        THEN << [Name |-> formatIPSetName("egress-src-v6-", name), Stack |-> IPv6, Kind |-> IPSrc],
                [Name |-> formatIPSetName("egress-dst-v6-", name), Stack |-> IPv6, Kind |-> IPDst] >>
        ELSE <<>>)

\* iptables.MatchCriteria and the action types, as records of one shape.
FullMask == U32(Half - 1, Half - 1)
HighByteMask == U32(65280, 0)
NoMark == U32(0, 0)

EmptyMatch ==
    [SourceIPSet |-> "", DestIPSet |-> "", NotDestIPSet |-> "", CTDirection |-> "",
     MarkSet |-> FALSE, Mark |-> NoMark, Mask |-> NoMark]

MarkMatchesWithMask(m, mark, mask) == [m EXCEPT !.MarkSet = TRUE, !.Mark = mark, !.Mask = mask]

AcceptAction == [Type |-> "Accept", Target |-> "", Mark |-> NoMark, Mask |-> NoMark, ToAddr |-> ""]
JumpAction(target) == [AcceptAction EXCEPT !.Type = "Jump", !.Target = target]
SetMaskedMarkAction(mark, mask) ==
    [AcceptAction EXCEPT !.Type = "SetMaskedMark", !.Mark = mark, !.Mask = mask]
SNATAction(toAddr) == [AcceptAction EXCEPT !.Type = "SNAT", !.ToAddr = toAddr]

NoRule == [nil |-> TRUE, Match |-> EmptyMatch, Action |-> AcceptAction]
Rule(match, action) == [nil |-> FALSE, Match |-> match, Action |-> action]

PolicyMatch(tmp, ignoreName, policyName, isIgnoreInternalCIDR) ==
    LET srcName == formatIPSetName("egress-src-" \o tmp, policyName)
        dstName == formatIPSetName("egress-dst-" \o tmp, policyName)
    IN IF isIgnoreInternalCIDR
       THEN [EmptyMatch EXCEPT !.SourceIPSet = srcName, !.NotDestIPSet = ignoreName,
                               !.CTDirection = "ORIGINAL"]
       ELSE [EmptyMatch EXCEPT !.SourceIPSet = srcName, !.DestIPSet = dstName,
                               !.CTDirection = "ORIGINAL"]

\* A variant of buildEipRule that gives up as soon as one address is missing.
buildEipRule_NilWhenAnyMissing(policyName, eip, version, isIgnoreInternalCIDR) ==
    IF eip.V4 = "" \/ eip.V6 = "" THEN NoRule
    ELSE LET tmp == IF version = 6 THEN "v6-" ELSE "v4-"
             ip == IF version = 6 THEN eip.V6 ELSE eip.V4
             ignoreName == IF version = 6 THEN EgressClusterCIDRIPv6 ELSE EgressClusterCIDRIPv4
         IN Rule(PolicyMatch(tmp, ignoreName, policyName, isIgnoreInternalCIDR), SNATAction(ip))

\* buildEipRule: nil when the EIP has neither address; otherwise a SNAT rule
\* to the address of the table's family.
buildEipRule(policyName, eip, version, isIgnoreInternalCIDR) ==
    IF eip.V4 = "" /\ eip.V6 = "" THEN NoRule
    ELSE LET tmp == IF version = 6 THEN "v6-" ELSE "v4-"
             ip == IF version = 6 THEN eip.V6 ELSE eip.V4
             ignoreName == IF version = 6 THEN EgressClusterCIDRIPv6 ELSE EgressClusterCIDRIPv4
         IN Rule(PolicyMatch(tmp, ignoreName, policyName, isIgnoreInternalCIDR), SNATAction(ip))

\* A variant of buildPolicyRule that reads the ignore flag the wrong way round.
buildPolicyRule_FlagInverted(policyName, mark, version, isIgnoreInternalCIDR) ==
    LET tmp == IF version = 6 THEN "v6-" ELSE "v4-"
        ignoreName == IF version = 6 THEN EgressClusterCIDRIPv6 ELSE EgressClusterCIDRIPv4
    IN Rule(PolicyMatch(tmp, ignoreName, policyName, ~isIgnoreInternalCIDR),
            SetMaskedMarkAction(mark, FullMask))

buildPolicyRule(policyName, mark, version, isIgnoreInternalCIDR) ==
    LET tmp == IF version = 6 THEN "v6-" ELSE "v4-"
        ignoreName == IF version = 6 THEN EgressClusterCIDRIPv6 ELSE EgressClusterCIDRIPv4
    IN Rule(PolicyMatch(tmp, ignoreName, policyName, isIgnoreInternalCIDR),
            SetMaskedMarkAction(mark, FullMask))

buildNatStaticRule(base) ==
    [chain \in {"POSTROUTING"} |->
        << Rule(MarkMatchesWithMask(EmptyMatch, base, FullMask), AcceptAction),
           Rule(EmptyMatch, JumpAction(SnatChain)) >>]

buildFilterStaticRule(base) ==
    [chain \in {"FORWARD", "OUTPUT"} |->
        << Rule(MarkMatchesWithMask(EmptyMatch, base, FullMask), AcceptAction) >>]

buildMangleStaticRule(base) ==
    [chain \in {"FORWARD", "POSTROUTING", "PREROUTING"} |->
        CASE chain = "FORWARD" ->
               << Rule(MarkMatchesWithMask(EmptyMatch, base, HighByteMask),
                       SetMaskedMarkAction(base, FullMask)) >>
          [] chain = "POSTROUTING" ->
               << Rule(MarkMatchesWithMask(EmptyMatch, base, FullMask), AcceptAction) >>
          [] OTHER -> << Rule(EmptyMatch, JumpAction(MarkChain)) >>]

\* ------------------------------------------------------------------------
\* Configuration, cluster objects
\* ------------------------------------------------------------------------

\* NODE_NAME of the agent, and the other nodes of the cluster.
NodeName == "nodeA"
RemoteNodes == {"nodeB", "nodeC"}

\* FileConfig.Mark, the default of LoadConfig: "0x26000000".
ConfigMark == <<"0", "x", "2", "6", "0", "0", "0", "0", "0", "0">>

\* egressv1.Policy values: one namespaced policy, one cluster policy.
P1 == [Name |-> "app", Namespace |-> "ns1"]
P2 == [Name |-> "web", Namespace |-> ""]
PolicyIds == {P1, P2}

V4(a, b, c, d, plen) == [fam |-> 4, ip |-> <<a, b, c, d>>, plen |-> plen]
V6(hi, lo, plen) == [fam |-> 6, ip |-> <<hi, 0, 0, 0, 0, 0, 0, lo>>, plen |-> plen]

\* ------------------------------------------------------------------------
\* Set backend (pkg/ipset over the kernel's hash:net sets)
\* ------------------------------------------------------------------------

NoSet == [exists |-> FALSE, family |-> "", members |-> {}]

AllSetNames ==
    { n.Name : n \in UNION { Range(buildIPSetNamesByPolicy(p.Namespace, p.Name, TRUE, TRUE)) :
                             p \in PolicyIds } }
    \cup {EgressClusterCIDRIPv4, EgressClusterCIDRIPv6}

\* How a hash:net set stores and lists an entry: a host (no length, or the
\* full length of the family) as the bare address, a network as its masked
\* address with the length.
KernelEntry(e) ==
    IF e.plen = NoPrefix \/ e.plen = AddrBits(e.fam) THEN [e EXCEPT !.plen = NoPrefix]
    ELSE [e EXCEPT !.ip = MaskIP(e.fam, e.ip, e.plen)]

EntryFits(e, family) ==
    /\ IsAddr(e)
    /\ e.plen <= AddrBits(e.fam)
    /\ (e.fam = 4) = (family = "inet")

CreateSet(k, name, family) ==
    IF k[name].exists THEN k
    ELSE [k EXCEPT ![name] = [exists |-> TRUE, family |-> family, members |-> {}]]

DestroySet(k, name) == [k EXCEPT ![name] = NoSet]

ListEntries(k, name) ==
    [err |-> ~k[name].exists, list |-> SetToSeq(k[name].members)]

AddEntry(k, entry, name) ==
    IF k[name].exists /\ EntryFits(entry, k[name].family)
    THEN [err |-> FALSE, k |-> [k EXCEPT ![name].members = @ \cup {KernelEntry(entry)}]]
    ELSE [err |-> TRUE, k |-> k]

DelEntry(k, entry, name) ==
    IF k[name].exists /\ IsAddr(entry)
    THEN [err |-> FALSE, k |-> [k EXCEPT ![name].members = @ \ {KernelEntry(entry)}]]
    ELSE [err |-> FALSE, k |-> k]

\* A backend call that fails for the time being: the call, the object it is
\* made on (a set, a table, a node, a policy, a kind) and, for AddEntry and
\* DelEntry, which of the calls on that set within one run.
NoFault == [call |-> "", on |-> "", nth |-> 1]
Failing(call, on) == [call |-> call, on |-> on, nth |-> 1]

\* Is the i-th call of ops the one that f makes fail.
OpFails(ops, i, f) ==
    /\ f.call = (IF ops[i].add THEN "AddEntry" ELSE "DelEntry")
    /\ f.on = ops[i].set
    /\ f.nth = Cardinality({ j \in 1..i : ops[j].add = ops[i].add /\ ops[j].set = ops[i].set })

\* A run of AddEntry / DelEntry calls in program order, stopped by the first
\* error: the call that f makes fail (met), or a call the kernel refuses.
RECURSIVE EntryOpsFrom(_, _, _, _)
EntryOpsFrom(k, ops, i, f) ==
    IF i > Len(ops) THEN [err |-> FALSE, k |-> k, met |-> FALSE]
    ELSE IF OpFails(ops, i, f) THEN [err |-> TRUE, k |-> k, met |-> TRUE]
    ELSE LET Rest(r) == IF r.err THEN [err |-> TRUE, k |-> r.k, met |-> FALSE]
                        ELSE EntryOpsFrom(r.k, ops, i + 1, f)
         IN Rest(IF ops[i].add THEN AddEntry(k, ops[i].entry, ops[i].set)
                 ELSE DelEntry(k, ops[i].entry, ops[i].set))

ApplyEntryOps(k, ops, f) == EntryOpsFrom(k, ops, 1, f)

\* The calls of one pass on the members of its sets: the loop of the
\* additions runs to its end before the loop of the removals starts.
DelsThenAdds(adds, dels) == dels \o adds
AddsThenDels(adds, dels) == adds \o dels

RECURSIVE ConcatAll(_)
ConcatAll(ss) == IF Len(ss) = 0 THEN <<>> ELSE Head(ss) \o ConcatAll(Tail(ss))

\* ------------------------------------------------------------------------
\* Rule backend (pkg/iptables): one table per (name, IP version)
\* ------------------------------------------------------------------------

TableNames == {"mangle", "nat", "filter"}
ChainNames == {MarkChain, SnatChain, "FORWARD", "OUTPUT", "POSTROUTING", "PREROUTING"}
TableKeys == TableNames \X {4, 6}

EmptyTable == [c \in ChainNames |-> <<>>]

\* UpdateChain replaces the rule list of a chain the agent owns.
UpdateChain(table, chain, rules) == [table EXCEPT ![chain] = rules]

\* InsertOrAppendRules places rules in a built-in chain; a rule equal to one
\* already placed there is not placed again.
RECURSIVE InsertOrAppendRules(_, _, _)
InsertOrAppendRules(table, chain, rules) ==
    IF Len(rules) = 0 THEN table
    ELSE InsertOrAppendRules(
            IF Head(rules) \in Range(table[chain]) THEN table
            ELSE [table EXCEPT ![chain] = Append(@, Head(rules))],
            chain, Tail(rules))

InsertChainMap(table, chainMapRules) ==
    LET RECURSIVE Go(_, _)
        Go(t, chains) ==
            IF Len(chains) = 0 THEN t
            ELSE Go(InsertOrAppendRules(t, Head(chains), chainMapRules[Head(chains)]), Tail(chains))
    IN Go(table, SetToSeq(DOMAIN chainMapRules))

\* ------------------------------------------------------------------------
\* State
\* ------------------------------------------------------------------------

VARIABLES
    cfg,           \* FileConfig: EnableIPv4, EnableIPv6
    gateways,      \* the EgressGateway objects, as client.List returns them
    policies,      \* EgressPolicy / EgressClusterPolicy objects by identity
    slices,        \* EgressEndpointSlice and EgressClusterEndpointSlice objects
    egressNodes,   \* EgressNode objects by node name
    clusterInfo,   \* the EgressClusterInfo object
    ipsetMap,      \* policeReconciler.ipsetMap: names of the cached sets
    ipsets,        \* the kernel's IP sets
    tables,        \* the agent's table snapshots (pending chain contents)
    kernelTables,  \* the kernel's chains, as last applied
    doOnce,        \* policeReconciler.doOnce: has the first rebuild succeeded
    last,          \* the handler that completed last, and its result
    calls,         \* the calls of Reconcile in flight, by worker
    input,         \* the arguments of a function studied by itself
    output,        \* and its result
    fault,         \* the backend call that fails for the time being
    met            \* has the pass that completed last met a failing call

crdVars == <<cfg, gateways, policies, slices, egressNodes, clusterInfo>>
agentVars == <<ipsetMap, ipsets, tables, kernelTables, met>>
sideVars == <<calls, input, output, fault>>
vars == <<cfg, gateways, policies, slices, egressNodes, clusterInfo,
          ipsetMap, ipsets, tables, kernelTables, doOnce, last, calls, input, output,
          fault, met>>

\* The part of the state a handler changes, threaded through its steps.
Agent == [ipsetMap |-> ipsetMap, ipsets |-> ipsets, tables |-> tables,
          kernelTables |-> kernelTables, met |-> FALSE]

Versions == (IF cfg.EnableIPv4 THEN <<4>> ELSE <<>>) \o (IF cfg.EnableIPv6 THEN <<6>> ELSE <<>>)

\* ------------------------------------------------------------------------
\* updatePolicyIPSet and its helpers
\* ------------------------------------------------------------------------

\* getPolicySrcIPs_NoFilter is a variant of getPolicySrcIPs that keeps the
\* endpoints of every node.
\* getPolicySrcIPs: the addresses of the endpoints that pass the filter, from
\* the slices without deletion timestamp that carry the policy-name label;
\* cluster slices for a cluster policy, namespaced slices otherwise.
getPolicySrcIPs_NoFilter(policyNs, policyName, isEipNodeSet) ==
    LET Listed(ep) == /\ ep.PolicyLabel = policyName
                      /\ (policyNs = "") = (ep.Namespace = "")
        Live(ep) == ~ep.Deleting
        Endpoints == ConcatAll(MapSeq(SelectSeq(SelectSeq(slices, Listed), Live),
                                      LAMBDA ep : ep.Endpoints))
    IN [v4 |-> ConcatAll(MapSeq(Endpoints, LAMBDA e : e.IPv4)),
        v6 |-> ConcatAll(MapSeq(Endpoints, LAMBDA e : e.IPv6))]

getPolicySrcIPs(policyNs, policyName, isEipNodeSet) ==
    LET Listed(ep) == /\ ep.PolicyLabel = policyName
                      /\ (policyNs = "") = (ep.Namespace = "")
        Live(ep) == ~ep.Deleting
        Filter(e) == e.Node = NodeName \/ isEipNodeSet
        eps == SelectSeq(SelectSeq(slices, Listed), Live)
        Endpoints == SelectSeq(ConcatAll(MapSeq(eps, LAMBDA ep : ep.Endpoints)), Filter)
    IN [v4 |-> ConcatAll(MapSeq(Endpoints, LAMBDA e : e.IPv4)),
        v6 |-> ConcatAll(MapSeq(Endpoints, LAMBDA e : e.IPv6))]

\* A handler that stops with an error, having met the failing call or not.
Failed(st) == [err |-> TRUE, st |-> st]
FailedOnFault(st) == [err |-> TRUE, st |-> [st EXCEPT !.met = TRUE]]
Fine(st) == [err |-> FALSE, st |-> st]

createIPSet(st, set) ==
    IF set.Name \in st.ipsetMap THEN Fine(st)
    ELSE IF set.Stack = IPv4 /\ ~cfg.EnableIPv4 THEN Fine(st)
    ELSE IF set.Stack = IPv6 /\ ~cfg.EnableIPv6 THEN Fine(st)
    ELSE IF fault = Failing("CreateSet", set.Name) THEN FailedOnFault(st)
    ELSE Fine([st EXCEPT !.ipsets = CreateSet(@, set.Name, HashFamily(set.Stack)),
                         !.ipsetMap = @ \cup {set.Name}])

\* removeIPSet: a set of the cache is destroyed and leaves the cache; an
\* error of DestroySet is logged and the set leaves the cache all the same.
removeIPSet(st, name) ==
    IF name \in st.ipsetMap
    THEN IF fault = Failing("DestroySet", name)
         THEN [st EXCEPT !.ipsetMap = @ \ {name}, !.met = TRUE]
         ELSE [st EXCEPT !.ipsets = DestroySet(@, name), !.ipsetMap = @ \ {name}]
    ELSE st

RECURSIVE FoldSets(_, _, _)
FoldSets(F(_, _), st, sets) ==
    IF Len(sets) = 0 THEN st ELSE FoldSets(F, F(st, Head(sets)), Tail(sets))

\* SetNames.Map with createIPSet: the sets in order, up to the first error.
RECURSIVE EnsureSets(_, _)
EnsureSets(st, sets) ==
    IF Len(sets) = 0 THEN Fine(st)
    ELSE LET Rest(r) == IF r.err THEN r ELSE EnsureSets(r.st, Tail(sets))
         IN Rest(createIPSet(st, Head(sets)))

\* The kind of slice that getPolicySrcIPs lists for the policy.
SliceKindOf(policyNs) ==
    IF policyNs = "" THEN "EgressClusterEndpointSlice" ELSE "EgressEndpointSlice"

\* The steps of updatePolicyIPSet are operators of the values they work on:
\* src and dst are the lists of getPolicySrcIPs and getDstCIDR, st1 the
\* handler state with the sets ensured, diffs the toAddList and toDelList
\* maps (one entry per set that got a diff), r the outcome of the adds
\* followed by the dels.
updatePolicyIPSet(st, policyNs, policyName, isEipNodeSet, destSubnet) ==
    LET setNames == buildIPSetNamesByPolicy(policyNs, policyName, cfg.EnableIPv4, cfg.EnableIPv6)
        HasDiff(set) == (set.Stack = IPv4 /\ cfg.EnableIPv4) \/ cfg.EnableIPv6
        Old(l) == IF l.err THEN <<>> ELSE l.list
        New(set, src, dst) ==
            IF set.Kind = IPSrc
            THEN (IF set.Stack = IPv4 /\ cfg.EnableIPv4 THEN src.v4 ELSE src.v6)
            ELSE (IF set.Stack = IPv4 /\ cfg.EnableIPv4 THEN dst.v4 ELSE dst.v6)
        Diffs(st1, src, dst) ==
            MapSeq(SelectSeq(setNames, HasDiff),
                   LAMBDA set : [Name |-> set.Name,
                                 d |-> findDiff(Old(ListEntries(st1.ipsets, set.Name)),
                                                New(set, src, dst))])
        Adds(e) == MapSeq(e.d.toAdd, LAMBDA ip : [add |-> TRUE, set |-> e.Name, entry |-> ip])
        Dels(e) == MapSeq(e.d.toDel, LAMBDA ip : [add |-> FALSE, set |-> e.Name, entry |-> ip])
        Ops(st1, diffs) ==
            AddsThenDels(
              ConcatAll(MapSeq(SelectSeq(diffs, LAMBDA e : e.Name \in st1.ipsetMap), Adds)),
              ConcatAll(MapSeq(diffs, Dels)))
        Result(st1, r) ==
            [err |-> r.err, st |-> [st1 EXCEPT !.ipsets = r.k, !.met = @ \/ r.met]]
        ListFails(set) == fault = Failing("ListEntries", set.Name)
        Run(st1, src, dst) ==
            IF Len(SelectSeq(setNames, ListFails)) > 0 THEN FailedOnFault(st1)
            ELSE Result(st1, ApplyEntryOps(st1.ipsets, Ops(st1, Diffs(st1, src, dst)), fault))
        Ensured(r, src, dst) == IF r.err THEN r ELSE Run(r.st, src, dst)
        WithLists(src, dst) ==
            IF dst.err THEN Failed(st)
            ELSE Ensured(EnsureSets(st, setNames), src, dst)
    IN IF fault = Failing("List", SliceKindOf(policyNs)) THEN FailedOnFault(st)
       ELSE WithLists(getPolicySrcIPs(policyNs, policyName, isEipNodeSet), getDstCIDR(destSubnet))

\* ------------------------------------------------------------------------
\* initApplyPolicy: the gateway rebuild
\* ------------------------------------------------------------------------

\* One element per (gateway, node, eip, policy) of the gateways' status, in
\* the order the nested loops visit them.
StatusEntries(gws) ==
    ConcatAll(MapSeq(gws, LAMBDA g :
        ConcatAll(MapSeq(g.Status.NodeList, LAMBDA n :
            ConcatAll(MapSeq(n.Eips, LAMBDA e :
                MapSeq(e.Policies, LAMBDA p :
                    [Node |-> n.Name, IPv4 |-> e.IPv4, IPv6 |-> e.IPv6, Policy |-> p])))))))

\* The map the loops fill: a later entry of the same policy overwrites an
\* earlier one.
PolicyCommonMap(entries, withIP) ==
    [p \in { entries[i].Policy : i \in DOMAIN entries } |->
        LET i == CHOOSE j \in DOMAIN entries :
                    /\ entries[j].Policy = p
                    /\ \A m \in DOMAIN entries : m > j => entries[m].Policy # p
        IN [NodeName |-> entries[i].Node,
            IP |-> IF withIP THEN [V4 |-> entries[i].IPv4, V6 |-> entries[i].IPv6]
                   ELSE [V4 |-> "", V6 |-> ""]]]

snatPolicies ==
    PolicyCommonMap(SelectSeq(StatusEntries(gateways), LAMBDA e : e.Node = NodeName), TRUE)
unSnatPolicies ==
    PolicyCommonMap(SelectSeq(StatusEntries(gateways), LAMBDA e : e.Node # NodeName), FALSE)

\* client.Get of a policy object: NotFound leaves the zero object, whose
\* DestSubnet is empty.
PolicyDestSubnet(policy) ==
    IF policies[policy].exists THEN policies[policy].DestSubnet ELSE <<>>

RuleName(policy) ==
    IF policy.Namespace # "" THEN policy.Namespace \o "-" \o policy.Name ELSE policy.Name

\* One loop over a policy map: client.Get of the policy object, then
\* updatePolicyIPSet; the first error ends the rebuild.
RECURSIVE RefreshSets(_, _, _)
RefreshSets(st, order, isEipNodeSet) ==
    IF Len(order) = 0 THEN Fine(st)
    ELSE IF fault = Failing("GetPolicy", RuleName(Head(order))) THEN FailedOnFault(st)
    ELSE LET Rest(r) == IF r.err THEN r ELSE RefreshSets(r.st, Tail(order), isEipNodeSet)
         IN Rest(updatePolicyIPSet(st, Head(order).Namespace, Head(order).Name, isEipNodeSet,
                                   PolicyDestSubnet(Head(order))))

\* client.Get of the EgressNode of a node: it fails when the object is not
\* there and when the call fails.
NodeFetched(node) == egressNodes[node].exists /\ fault # Failing("GetNode", node)

\* A variant of MarkRules that marks with the configured base mark instead
\* of the mark of the node that holds the EIP.
MarkRules_BaseMark(unSnat, order, version) ==
    LET Fetched(policy) == NodeFetched(unSnat[policy].NodeName)
        RuleOf(policy) ==
            buildPolicyRule(RuleName(policy), parseMark(ConfigMark).val,
                            version, Len(PolicyDestSubnet(policy)) <= 0)
    IN MapSeq(SelectSeq(order, Fetched), RuleOf)

\* The rules of EGRESSGATEWAY-MARK-REQUEST for one mangle table: a policy
\* whose EgressNode cannot be fetched is skipped.
MarkRules(unSnat, order, version) ==
    LET Fetched(policy) == NodeFetched(unSnat[policy].NodeName)
        RuleOf(policy) ==
            buildPolicyRule(RuleName(policy),
                            parseMark(egressNodes[unSnat[policy].NodeName].Mark).val,
                            version, Len(PolicyDestSubnet(policy)) <= 0)
    IN MapSeq(SelectSeq(order, Fetched), RuleOf)

\* A variant of MarkParseFails that also fails on a policy whose EgressNode
\* is not fetched.
MarkParseFails_MissingNode(unSnat) ==
    \E policy \in DOMAIN unSnat :
        \/ ~NodeFetched(unSnat[policy].NodeName)
        \/ parseMark(egressNodes[unSnat[policy].NodeName].Mark).err

MarkParseFails(unSnat) ==
    \E policy \in DOMAIN unSnat :
        /\ NodeFetched(unSnat[policy].NodeName)
        /\ parseMark(egressNodes[unSnat[policy].NodeName].Mark).err

\* A variant of SnatRules that adds the rules to those the chain already has
\* instead of replacing them.
SnatRules_Appending(snat, order, version) ==
    LET RuleOf(policy) ==
            buildEipRule(RuleName(policy), snat[policy].IP, version,
                         Len(PolicyDestSubnet(policy)) <= 0)
        NotNil(rule) == ~rule.nil
    IN tables[<<"nat", version>>][SnatChain] \o SelectSeq(MapSeq(order, RuleOf), NotNil)

\* A variant of SnatRules that leaves the chain without the rules of the
\* policies.
SnatRules_None(snat, order, version) == <<>>

\* The rules of EGRESSGATEWAY-SNAT-EIP for one nat table.
SnatRules(snat, order, version) ==
    LET RuleOf(policy) ==
            buildEipRule(RuleName(policy), snat[policy].IP, version,
                         Len(PolicyDestSubnet(policy)) <= 0)
        NotNil(rule) == ~rule.nil
    IN SelectSeq(MapSeq(order, RuleOf), NotNil)

\* The tables of a family exist when the family is enabled.
Enabled_Always(key) == TRUE
Enabled(key) == \E i \in DOMAIN Versions : Versions[i] = key[2]

\* The tables in the order initApplyPolicy applies them: nat, filter, mangle,
\* IPv4 before IPv6.
TableId(k) == k[1] \o (IF k[2] = 4 THEN "-v4" ELSE "-v6")
ApplyOrder ==
    SelectSeq(<< <<"nat", 4>>, <<"nat", 6>>, <<"filter", 4>>, <<"filter", 6>>,
                 <<"mangle", 4>>, <<"mangle", 6>> >>, Enabled)
ApplyFails(k) == fault = Failing("Apply", TableId(k))
\* Is the table applied before the loop over the tables ends.
AppliedTable(k) ==
    \E i \in DOMAIN ApplyOrder :
        ApplyOrder[i] = k /\ \A j \in 1..i : ~ApplyFails(ApplyOrder[j])

\* ordUnSnat and ordSnat are the orders in which the range statements visit
\* the keys of the two maps.
initApplyPolicy(st, ordUnSnat, ordSnat) ==
    IF fault = Failing("List", "EgressGateway") THEN FailedOnFault(st)
    ELSE IF Len(gateways) = 0 THEN Fine(st)
    ELSE
    LET \* static rules of the filter and mangle tables, mark chain emptied
        Static(t, base) ==
            [k \in TableKeys |->
                 IF ~Enabled(k) THEN t[k]
                 ELSE IF k[1] = "filter"
                      THEN InsertChainMap(t[k], buildFilterStaticRule(base))
                 ELSE IF k[1] = "mangle"
                      THEN InsertChainMap(UpdateChain(t[k], MarkChain, <<>>),
                                          buildMangleStaticRule(base))
                 ELSE t[k]]
        \* mark chain and SNAT chain, static rules of the nat table
        Chains(t1, base) ==
            [k \in TableKeys |->
                 IF ~Enabled(k) THEN t1[k]
                 ELSE IF k[1] = "mangle"
                      THEN UpdateChain(t1[k], MarkChain,
                                       MarkRules(unSnatPolicies, ordUnSnat, k[2]))
                 ELSE IF k[1] = "nat"
                      THEN InsertChainMap(UpdateChain(t1[k], SnatChain,
                                                      SnatRules(snatPolicies, ordSnat, k[2])),
                                          buildNatStaticRule(base))
                 ELSE t1[k]]
        \* table.Apply() of every table, up to the first that fails
        Applied(s, t2) ==
            [err |-> \E k \in Range(ApplyOrder) : ApplyFails(k),
             st |-> [s EXCEPT !.tables = t2,
                              !.kernelTables = [k \in TableKeys |->
                                                  IF AppliedTable(k) THEN t2[k] ELSE @[k]],
                              !.met = @ \/ \E k \in Range(ApplyOrder) : ApplyFails(k)]]
        \* the EgressNode of a policy's node is not fetched: the policy is skipped
        NodeSkipped(s) ==
            [s EXCEPT !.met = @ \/ (/\ Len(Versions) > 0
                                    /\ \E policy \in DOMAIN unSnatPolicies :
                                         fault = Failing("GetNode",
                                                         unSnatPolicies[policy].NodeName))]
        Rules(s, t1, base) ==
            IF MarkParseFails(unSnatPolicies) /\ Len(Versions) > 0
            THEN Failed([s EXCEPT !.tables = t1])
            ELSE Applied(NodeSkipped(s), Chains(t1, base))
        Tables(s, baseMark) ==
            IF baseMark.err THEN Failed(s)
            ELSE Rules(s, Static(s.tables, baseMark.val), baseMark.val)
        SnatSets(r2) == IF r2.err THEN r2 ELSE Tables(r2.st, parseMark(ConfigMark))
        UnSnatSets(r1) == IF r1.err THEN r1 ELSE SnatSets(RefreshSets(r1.st, ordSnat, TRUE))
    IN UnSnatSets(RefreshSets(st, ordUnSnat, FALSE))

reconcileGateway(st, ordUnSnat, ordSnat) == initApplyPolicy(st, ordUnSnat, ordSnat)

\* ------------------------------------------------------------------------
\* reconcilePolicy, reconcileClusterPolicy
\* ------------------------------------------------------------------------

\* client.Get of the EgressGateway named like the policy.
GatewayNamed(name) == SelectSeq(gateways, LAMBDA g : g.Name = name)

\* The node of the last status entry of the gateway that lists the policy,
\* "" when none does.
GatewayNodeOf(gateway, policy) ==
    LET es == SelectSeq(StatusEntries(<<gateway>>), LAMBDA e : e.Policy = policy)
    IN IF Len(es) = 0 THEN "" ELSE es[Len(es)].Node

PolicyDeleted(req) == ~policies[req].exists \/ policies[req].deleting

\* A variant of reconcilePolicy whose delete path fails when a set of the
\* policy is not in the cache or not in the kernel.
reconcilePolicy_AbsentSetFails(st, req) ==
    IF fault = Failing("GetPolicy", RuleName(req)) THEN FailedOnFault(st)
    ELSE IF PolicyDeleted(req)
    THEN [err |-> \E set \in Range(buildIPSetNamesByPolicy(req.Namespace, req.Name, TRUE, TRUE)) :
                     set.Name \notin st.ipsetMap \/ ~st.ipsets[set.Name].exists,
          st |-> FoldSets(LAMBDA s, set : removeIPSet(s, set.Name), st,
                          buildIPSetNamesByPolicy(req.Namespace, req.Name, TRUE, TRUE))]
    ELSE IF fault = Failing("GetGateway", req.Name) THEN FailedOnFault(st)
    ELSE IF Len(GatewayNamed(req.Name)) = 0 THEN Failed(st)
    ELSE LET nodeName == GatewayNodeOf(GatewayNamed(req.Name)[1], req)
             flag == nodeName = NodeName
         IN updatePolicyIPSet(st, req.Namespace, req.Name, flag, policies[req].DestSubnet)

reconcilePolicy(st, req) ==
    IF fault = Failing("GetPolicy", RuleName(req)) THEN FailedOnFault(st)
    ELSE IF PolicyDeleted(req)
    THEN Fine(FoldSets(LAMBDA s, set : removeIPSet(s, set.Name), st,
                       buildIPSetNamesByPolicy(req.Namespace, req.Name, TRUE, TRUE)))
    ELSE IF fault = Failing("GetGateway", req.Name) THEN FailedOnFault(st)
    ELSE IF Len(GatewayNamed(req.Name)) = 0 THEN Failed(st)
    ELSE LET nodeName == GatewayNodeOf(GatewayNamed(req.Name)[1], req)
             flag == nodeName = NodeName
         IN updatePolicyIPSet(st, req.Namespace, req.Name, flag, policies[req].DestSubnet)

reconcileClusterPolicy(st, req) ==
    IF fault = Failing("GetPolicy", RuleName(req)) THEN FailedOnFault(st)
    ELSE IF PolicyDeleted(req)
    THEN Fine(FoldSets(LAMBDA s, set : removeIPSet(s, set.Name), st,
                       buildIPSetNamesByPolicy(req.Namespace, req.Name, TRUE, TRUE)))
    ELSE IF fault = Failing("GetGateway", req.Name) THEN FailedOnFault(st)
    ELSE IF Len(GatewayNamed(req.Name)) = 0 THEN Failed(st)
    ELSE LET nodeName == GatewayNodeOf(GatewayNamed(req.Name)[1], req)
             flag == nodeName = NodeName
         IN updatePolicyIPSet(st, req.Namespace, req.Name, flag, policies[req].DestSubnet)

\* ------------------------------------------------------------------------
\* reconcileClusterInfo
\* ------------------------------------------------------------------------

\* cfg.FileConfig.EgressIgnoreCIDR.Custom: "192.168.0.0/16"
CustomIgnoreCIDR == << V4(192, 168, 0, 0, 16) >>

\* ip.String() of a parsed address
IPString(s) == [fam |-> s.fam, ip |-> s.ip, plen |-> NoPrefix]

\* addIP: what does not parse as an address is passed over.
addIP(items) == MapSeq(SelectSeq(items, ParseIPOk), IPString)

\* addCIDR: what does not parse as a CIDR is passed over; the rest is kept
\* as cidr.String().
addCIDR(items) ==
    LET Parses(item) == ~ParseCIDR(item).err
        NetOf(item) == ParseCIDR(item).NetString
    IN MapSeq(SelectSeq(items, Parses), NetOf)

\* The closure process: exp loses what got has, the rest of exp is added,
\* then every key of got is deleted.
process(k, name, gotList, expList) ==
    LET got == Range(gotList)
        Trimmed(exp) == exp \ { key \in exp : key \in got }
        Ops(exp) ==
            AddsThenDels(
              MapSeq(SetToSeq(exp), LAMBDA key : [add |-> TRUE, set |-> name, entry |-> key]),
              MapSeq(SetToSeq(got), LAMBDA key : [add |-> FALSE, set |-> name, entry |-> key]))
    IN ApplyEntryOps(k, Ops(Trimmed(Range(expList) \ got)), fault)

reconcileClusterInfo(st) ==
    IF fault = Failing("GetClusterInfo", "") THEN FailedOnFault(st)
    ELSE IF ~clusterInfo.exists \/ clusterInfo.deleting THEN Fine(st)
    ELSE IF fault = Failing("CreateSet", EgressClusterCIDRIPv4) THEN FailedOnFault(st)
    ELSE IF fault = Failing("CreateSet", EgressClusterCIDRIPv6)
    THEN FailedOnFault([st EXCEPT !.ipsets = CreateSet(@, EgressClusterCIDRIPv4, "inet")])
    ELSE
    LET ignore == clusterInfo
        all == addIP(ignore.NodeIP.IPv4) \o addIP(ignore.NodeIP.IPv6)
                 \o addCIDR(ignore.PodCIDR.IPv4) \o addCIDR(ignore.PodCIDR.IPv6)
                 \o addCIDR(ignore.ClusterIP.IPv4) \o addCIDR(ignore.ClusterIP.IPv6)
                 \o addCIDR(CustomIgnoreCIDR)
        Result(r) == [err |-> r.err, st |-> [st EXCEPT !.ipsets = r.k, !.met = @ \/ r.met]]
        SecondSet(r, got6, ipv6) ==
            IF r.err THEN Result(r)
            ELSE Result(process(r.k, EgressClusterCIDRIPv6, got6.list, ipv6))
        Lists(k, got4, got6, ipv4, ipv6) ==
            IF \/ fault = Failing("ListEntries", EgressClusterCIDRIPv4)
               \/ fault = Failing("ListEntries", EgressClusterCIDRIPv6)
            THEN FailedOnFault([st EXCEPT !.ipsets = k])
            ELSE IF got4.err \/ got6.err THEN Failed([st EXCEPT !.ipsets = k])
            ELSE SecondSet(process(k, EgressClusterCIDRIPv4, got4.list, ipv4), got6, ipv6)
        Created(k, ips) ==
            Lists(k, ListEntries(k, EgressClusterCIDRIPv4), ListEntries(k, EgressClusterCIDRIPv6),
                  SelectSeq(ips, IsV4Net), SelectSeq(ips, IsV6Net))
    IN Created(CreateSet(CreateSet(st.ipsets, EgressClusterCIDRIPv4, "inet"),
                         EgressClusterCIDRIPv6, "inet6"),
               all)

\* ------------------------------------------------------------------------
\* The cluster states the model starts from
\* ------------------------------------------------------------------------

NoPolicy == [exists |-> FALSE, deleting |-> FALSE, DestSubnet |-> <<>>]
Policy(dest) == [exists |-> TRUE, deleting |-> FALSE, DestSubnet |-> dest]

\* "10.6.1.92/32" and "fd00::1/64"
DestHostAndNet == << V4(10, 6, 1, 92, 32), V6(64768, 1, 64) >>
\* "10.6.1.92", an address without a prefix length
DestBareIP == << V4(10, 6, 1, 92, NoPrefix) >>

\* Endpoints: pods on the local node and on nodeB.
LocalPod == [Node |-> NodeName, IPv4 |-> << V4(10, 244, 0, 7, NoPrefix) >>,
             IPv6 |-> << V6(64832, 7, NoPrefix) >>]
RemotePod == [Node |-> "nodeB", IPv4 |-> << V4(10, 244, 1, 8, NoPrefix) >>,
              IPv6 |-> << V6(64832, 264, NoPrefix) >>]
LocalPod2 == [Node |-> NodeName, IPv4 |-> << V4(10, 244, 0, 9, NoPrefix) >>,
              IPv6 |-> << V6(64832, 9, NoPrefix) >>]
RemotePod2 == [Node |-> "nodeC", IPv4 |-> << V4(10, 244, 2, 3, NoPrefix) >>, IPv6 |-> <<>>]

Slice(ns, label, endpoints) ==
    [Namespace |-> ns, PolicyLabel |-> label, Deleting |-> FALSE, Endpoints |-> endpoints]

InitialSlices ==
    << Slice("ns1", "app", <<LocalPod, RemotePod>>),
       Slice("", "web", <<LocalPod2>>),
       Slice("", "web", <<RemotePod2>>) >>

\* EgressNode.status.mark of the remote nodes: "0x26000001", "0x26000002".
MarkB == <<"0", "x", "2", "6", "0", "0", "0", "0", "0", "1">>
MarkC == <<"0", "x", "2", "6", "0", "0", "0", "0", "0", "2">>
NoNode == [exists |-> FALSE, Mark |-> <<>>]
Node(mark) == [exists |-> TRUE, Mark |-> mark]

\* The EIPs a gateway node may carry for a policy.
EipBoth == [IPv4 |-> "192.168.10.5", IPv6 |-> "fd00:10::5"]
EipV4Only == [IPv4 |-> "192.168.10.5", IPv6 |-> ""]
EipNone == [IPv4 |-> "", IPv6 |-> ""]

GatewayNames == <<"app", "web">>

\* Where a gateway's status places a policy: nowhere, or on a node of one
\* gateway with an EIP.  A policy is listed at most once over all gateways.
Unbound == [gw |-> "", node |-> "", eip |-> EipNone]
Place(gw, node, eip) == [gw |-> gw, node |-> node, eip |-> eip]

Bindings ==
    { [p \in PolicyIds |-> IF p = P1 THEN b1 ELSE b2] :
        b1 \in {Unbound, Place("app", NodeName, EipBoth), Place("app", NodeName, EipV4Only),
                Place("app", NodeName, EipNone), Place("app", "nodeB", EipBoth),
                Place("web", NodeName, EipBoth), Place("web", "nodeC", EipBoth)},
        b2 \in {Unbound, Place("app", NodeName, EipBoth), Place("web", "nodeB", EipBoth)} }

\* The EgressGateway list in which the gateways' status holds the binding:
\* a gateway exists when it binds a policy, a node is listed when it
\* carries one, and every policy has an Eips entry of its own.
GatewayList(binding) ==
    LET Nodes == <<NodeName, "nodeB", "nodeC">>
        Pols == SetToSeq(PolicyIds)
        EipsOf(gw, node) ==
            MapSeq(SelectSeq(Pols, LAMBDA p : binding[p].gw = gw /\ binding[p].node = node),
                   LAMBDA p : [IPv4 |-> binding[p].eip.IPv4, IPv6 |-> binding[p].eip.IPv6,
                               Policies |-> <<p>>])
        NodeListOf(gw) ==
            MapSeq(SelectSeq(Nodes, LAMBDA n : Len(EipsOf(gw, n)) > 0),
                   LAMBDA n : [Name |-> n, Eips |-> EipsOf(gw, n)])
    IN MapSeq(SelectSeq(GatewayNames, LAMBDA gw : Len(NodeListOf(gw)) > 0),
              LAMBDA gw : [Name |-> gw, Status |-> [NodeList |-> NodeListOf(gw)]])

Families == { [EnableIPv4 |-> TRUE, EnableIPv6 |-> TRUE],
              [EnableIPv4 |-> TRUE, EnableIPv6 |-> FALSE],
              [EnableIPv4 |-> FALSE, EnableIPv6 |-> TRUE] }

NoLists == [IPv4 |-> <<>>, IPv6 |-> <<>>]
NoClusterInfo ==
    [exists |-> FALSE, deleting |-> FALSE,
     NodeIP |-> NoLists, PodCIDR |-> NoLists, ClusterIP |-> NoLists]

NoRequest == [Name |-> "", Namespace |-> ""]

\* The record of the handler that completed: its kind, its request, its
\* result and the record of the step before it, when that step matters: for a
\* gateway reconcile or a refresh that came right after a rebuild, a rebind
\* or a flush without error, and for a first rebuild repeated after a failed
\* one.
NoStep == [op |-> "", policy |-> NoRequest]
Done(op, policy, err) ==
    [op |-> op, policy |-> policy, err |-> err,
     after |-> IF \/ /\ op \in {"EgressGateway", "refresh"}
                     /\ ~last.err
                     /\ last.op \in {"init", "EgressGateway", "rebind", "flush"}
                  \/ op = "init" /\ last.op = "init" /\ last.err
               THEN [op |-> last.op, policy |-> last.policy]
               ELSE NoStep]

\* The workers of the controller, and a worker without a call.
MaxWorkers == 2
Workers == 1..MaxWorkers
IdleCall == [pc |-> "idle", kind |-> "", req |-> NoRequest]

\* No function is under study.
NoInput == [fn |-> ""]
NoOutput == [done |-> FALSE]
SideInit ==
    /\ calls = [w \in Workers |-> IdleCall]
    /\ input = NoInput
    /\ output = NoOutput
    /\ fault = NoFault

\* The agent right after newPolicyController: nothing cached, no set, empty
\* table snapshots, the first rebuild still to run.
AgentInit ==
    /\ ipsetMap = {}
    /\ ipsets = [n \in AllSetNames |-> NoSet]
    /\ tables = [k \in TableKeys |-> EmptyTable]
    /\ kernelTables = [k \in TableKeys |-> EmptyTable]
    /\ met = FALSE
    /\ doOnce = FALSE
    /\ last = [op |-> "start", policy |-> NoRequest, err |-> FALSE, after |-> NoStep]

Init ==
    /\ cfg \in Families
    /\ gateways \in { GatewayList(b) : b \in Bindings }
    /\ policies \in [PolicyIds -> {Policy(<<>>), Policy(DestHostAndNet), Policy(DestBareIP)}]
    /\ policies[P2] = Policy(<<>>)
    /\ slices = InitialSlices
    /\ egressNodes \in [RemoteNodes -> {NoNode, Node(MarkB), Node(MarkC)}]
    /\ egressNodes["nodeB"] # Node(MarkC)
    /\ egressNodes["nodeC"] = Node(MarkC)
    /\ clusterInfo = NoClusterInfo
    /\ AgentInit
    /\ SideInit

\* ------------------------------------------------------------------------
\* Actions: the Reconcile handler, by request kind
\* ------------------------------------------------------------------------

Commit(r) ==
    /\ ipsetMap' = r.st.ipsetMap
    /\ ipsets' = r.st.ipsets
    /\ tables' = r.st.tables
    /\ kernelTables' = r.st.kernelTables
    /\ met' = r.st.met

\* The body of doOnce in Reconcile: one run of initApplyPolicy; a failed run
\* is repeated, a successful one lets the requests through.
FirstReconcile ==
    /\ ~doOnce
    /\ \E ordUnSnat \in Orders(DOMAIN unSnatPolicies), ordSnat \in Orders(DOMAIN snatPolicies) :
        \E r \in {initApplyPolicy(Agent, ordUnSnat, ordSnat)} :
           /\ Commit(r)
           /\ doOnce' = ~r.err
           /\ last' = Done("init", NoRequest, r.err)
    /\ UNCHANGED crdVars
    /\ UNCHANGED sideVars

ReconcileGateway ==
    /\ doOnce
    /\ \E ordUnSnat \in Orders(DOMAIN unSnatPolicies), ordSnat \in Orders(DOMAIN snatPolicies) :
        \E r \in {reconcileGateway(Agent, ordUnSnat, ordSnat)} :
           /\ Commit(r)
           /\ last' = Done("EgressGateway", NoRequest, r.err)
    /\ UNCHANGED <<crdVars, doOnce>>
    /\ UNCHANGED sideVars

ReconcilePolicy(req) ==
    /\ doOnce
    /\ req.Namespace # ""
    /\ \E r \in {reconcilePolicy(Agent, req)} :
          /\ Commit(r)
          /\ last' = Done("EgressPolicy", req, r.err)
    /\ UNCHANGED <<crdVars, doOnce>>
    /\ UNCHANGED sideVars

ReconcileClusterPolicy(req) ==
    /\ doOnce
    /\ req.Namespace = ""
    /\ \E r \in {reconcileClusterPolicy(Agent, req)} :
          /\ Commit(r)
          /\ last' = Done("EgressClusterPolicy", req, r.err)
    /\ UNCHANGED <<crdVars, doOnce>>
    /\ UNCHANGED sideVars

\* ------------------------------------------------------------------------
\* Actions: changes of the cluster objects
\* ------------------------------------------------------------------------

Observed == last' = Done("change", NoRequest, FALSE)

\* An EgressGateway is deleted.
DeleteGateway ==
    /\ \E i \in DOMAIN gateways :
         gateways' = SelectSeq(gateways, LAMBDA g : g.Name # gateways[i].Name)
    /\ Observed
    /\ UNCHANGED <<cfg, policies, slices, egressNodes, clusterInfo, agentVars, doOnce>>
    /\ UNCHANGED sideVars

\* A policy gets its deletion timestamp, or is gone.
DeletePolicy(p) ==
    /\ policies[p].exists
    /\ \/ ~policies[p].deleting /\ policies' = [policies EXCEPT ![p].deleting = TRUE]
       \/ policies' = [policies EXCEPT ![p] = NoPolicy]
    /\ Observed
    /\ UNCHANGED <<cfg, gateways, slices, egressNodes, clusterInfo, agentVars, doOnce>>
    /\ UNCHANGED sideVars

\* An endpoint slice gets its deletion timestamp.
DeleteSlice ==
    /\ \E i \in {1} :
         /\ ~slices[i].Deleting
         /\ slices' = [slices EXCEPT ![i].Deleting = TRUE]
    /\ Observed
    /\ UNCHANGED <<cfg, gateways, policies, egressNodes, clusterInfo, agentVars, doOnce>>
    /\ UNCHANGED sideVars

Next ==
    \/ FirstReconcile
    \/ ReconcileGateway
    \/ \E p \in PolicyIds : ReconcilePolicy(p)
    \/ \E p \in PolicyIds : ReconcileClusterPolicy(p)
    \/ DeleteGateway
    \/ DeletePolicy(P1)
    \/ DeleteSlice

Spec == Init /\ [][Next]_vars

\* ------------------------------------------------------------------------
\* The destination sets under changing destSubnets
\* ------------------------------------------------------------------------

MaxSubnets == 2

\* "10.6.1.92/32", "10.6.1.92/24", "fd00::1/128", "fd00::1/64", "fd00::1/32"
\* and "10.6.1.92"
DstPool == { V4(10, 6, 1, 92, 32), V4(10, 6, 1, 92, 24), V6(64768, 1, 128),
             V6(64768, 1, 64), V6(64768, 1, 32), V4(10, 6, 1, 92, NoPrefix) }

DestLists == UNION { [1..n -> DstPool] : n \in 0..MaxSubnets }

\* One policy, bound to the gateway of its name with its EIP on the local
\* node; its destSubnets is any list of the pool.
InitDst ==
    /\ cfg \in Families
    /\ gateways = GatewayList([p \in PolicyIds |->
                     IF p = P1 THEN Place("app", NodeName, EipBoth) ELSE Unbound])
    /\ \E dest \in DestLists :
         policies = [p \in PolicyIds |-> IF p = P1 THEN Policy(dest) ELSE Policy(<<>>)]
    /\ slices = InitialSlices
    /\ egressNodes = [n \in RemoteNodes |-> Node(IF n = "nodeB" THEN MarkB ELSE MarkC)]
    /\ clusterInfo = NoClusterInfo
    /\ AgentInit
    /\ SideInit

\* spec.destSubnets of a policy is edited: one entry replaced, one appended,
\* or the last one dropped.
UpdateDestSubnet(p) ==
    /\ policies[p].exists
    /\ LET dest == policies[p].DestSubnet
       IN \/ \E i \in DOMAIN dest, c \in DstPool :
                /\ c # dest[i]
                /\ policies' = [policies EXCEPT ![p].DestSubnet = [dest EXCEPT ![i] = c]]
          \/ \E c \in DstPool :
                /\ Len(dest) < MaxSubnets
                /\ policies' = [policies EXCEPT ![p].DestSubnet = Append(dest, c)]
          \/ /\ Len(dest) > 0
             /\ policies' = [policies EXCEPT ![p].DestSubnet = SubSeq(dest, 1, Len(dest) - 1)]
    /\ Observed
    /\ UNCHANGED <<cfg, gateways, slices, egressNodes, clusterInfo, agentVars, doOnce>>
    /\ UNCHANGED sideVars

NextDst ==
    \/ FirstReconcile
    \/ ReconcileGateway
    \/ ReconcilePolicy(P1)
    \/ UpdateDestSubnet(P1)

SpecDst == InitDst /\ [][NextDst]_vars

\* The same policy, whose destSubnets are edited and which may be deleted.
NextEdit ==
    \/ NextDst
    \/ DeletePolicy(P1)

SpecEdit == InitDst /\ [][NextEdit]_vars

\* ------------------------------------------------------------------------
\* The cluster-ignore sets under a changing EgressClusterInfo
\* ------------------------------------------------------------------------

MaxNodeIPs == 2

\* "172.18.0.2", "172.18.0.3", ...
NodeAddr(i) == V4(172, 18, 0, i + 1, NoPrefix)

NodeIPLists ==
    { [IPv4 |-> SetToSeq({ NodeAddr(i) : i \in S }), IPv6 |-> v6] :
        S \in SUBSET (1..MaxNodeIPs), v6 \in { <<>>, << V6(64512, 2, NoPrefix) >> } }
\* the pod network "10.244.0.0/16", alone or with "fd00::/64"
PodCIDRLists ==
    { NoLists, [IPv4 |-> << V4(10, 244, 0, 0, 16) >>, IPv6 |-> <<>>],
      [IPv4 |-> << V4(10, 244, 0, 0, 16) >>, IPv6 |-> << V6(64768, 0, 64) >>] }
\* the service network, written "10.96.0.1/12"
ClusterIPLists == { NoLists, [IPv4 |-> << V4(10, 96, 0, 1, 12) >>, IPv6 |-> <<>>] }

ClusterInfos ==
    { [exists |-> TRUE, deleting |-> FALSE, NodeIP |-> n, PodCIDR |-> p, ClusterIP |-> c] :
        n \in NodeIPLists, p \in PodCIDRLists, c \in ClusterIPLists }

\* No gateway, no policy work: the agent only follows the EgressClusterInfo.
InitInfo ==
    /\ cfg \in Families
    /\ gateways = <<>>
    /\ policies = [p \in PolicyIds |-> Policy(<<>>)]
    /\ slices = InitialSlices
    /\ egressNodes = [n \in RemoteNodes |-> Node(IF n = "nodeB" THEN MarkB ELSE MarkC)]
    /\ clusterInfo \in ClusterInfos \cup {NoClusterInfo}
    /\ AgentInit
    /\ SideInit

ReconcileClusterInfo ==
    /\ doOnce
    /\ \E r \in {reconcileClusterInfo(Agent)} :
          /\ Commit(r)
          /\ last' = Done("EgressClusterInfo", NoRequest, r.err)
    /\ UNCHANGED <<crdVars, doOnce>>
    /\ UNCHANGED sideVars

\* The status of the EgressClusterInfo changes in one of its three parts, or
\* the object is created.
UpdateClusterInfo ==
    /\ \E info \in ClusterInfos :
         /\ clusterInfo' = info
         /\ \/ ~clusterInfo.exists
            \/ /\ info # clusterInfo
               /\ \/ info.NodeIP = clusterInfo.NodeIP /\ info.PodCIDR = clusterInfo.PodCIDR
                  \/ info.NodeIP = clusterInfo.NodeIP /\ info.ClusterIP = clusterInfo.ClusterIP
                  \/ info.PodCIDR = clusterInfo.PodCIDR /\ info.ClusterIP = clusterInfo.ClusterIP
    /\ Observed
    /\ UNCHANGED <<cfg, gateways, policies, slices, egressNodes, agentVars, doOnce>>
    /\ UNCHANGED sideVars

\* The EgressClusterInfo gets its deletion timestamp.
DeleteClusterInfo ==
    /\ clusterInfo.exists /\ ~clusterInfo.deleting
    /\ clusterInfo' = [clusterInfo EXCEPT !.deleting = TRUE]
    /\ Observed
    /\ UNCHANGED <<cfg, gateways, policies, slices, egressNodes, agentVars, doOnce>>
    /\ UNCHANGED sideVars

NextInfo ==
    \/ FirstReconcile
    \/ ReconcileClusterInfo
    \/ UpdateClusterInfo
    \/ DeleteClusterInfo

SpecInfo == InitInfo /\ [][NextInfo]_vars

\* ------------------------------------------------------------------------
\* Gateways whose status moves an EIP to another node
\* ------------------------------------------------------------------------

\* The status of a gateway changes: the EIP of a policy moves from the local
\* node to another node of the same gateway.
MoveEip(p) ==
    /\ \E b \in Bindings, node \in RemoteNodes :
         /\ gateways = GatewayList(b)
         /\ b[p].node = NodeName
         /\ gateways' = GatewayList([b EXCEPT ![p].node = node])
    /\ last' = Done("rebind", p, FALSE)
    /\ UNCHANGED <<cfg, policies, slices, egressNodes, clusterInfo, agentVars, doOnce>>
    /\ UNCHANGED sideVars

\* Gateway events only: the first rebuild, gateway reconciles, and EIPs that
\* move away from the local node.
NextRebind ==
    \/ FirstReconcile
    \/ ReconcileGateway
    \/ \E p \in PolicyIds : MoveEip(p)

SpecRebind == Init /\ [][NextRebind]_vars

\* ------------------------------------------------------------------------
\* Drift of the kernel's chains, and the periodic refresh of the tables
\* ------------------------------------------------------------------------

\* Another agent flushes EGRESSGATEWAY-SNAT-EIP in the kernel's nat table of
\* one family.
ExternalFlush ==
    /\ doOnce
    /\ Len(gateways) > 0
    /\ \E fam \in {4, 6} :
         /\ Enabled(<<"nat", fam>>)
         /\ kernelTables' = [kernelTables EXCEPT ![<<"nat", fam>>][SnatChain] = <<>>]
    /\ last' = Done("flush", NoRequest, FALSE)
    /\ UNCHANGED <<crdVars, ipsetMap, ipsets, tables, met, doOnce>>
    /\ UNCHANGED sideVars

\* The refresh interval of a table has passed: the table writes its
\* snapshot to the kernel again.
RefreshTick ==
    /\ kernelTables' = [k \in TableKeys |-> IF Enabled(k) THEN tables[k] ELSE kernelTables[k]]
    /\ last' = Done("refresh", NoRequest, FALSE)
    /\ UNCHANGED <<crdVars, ipsetMap, ipsets, tables, met, doOnce>>
    /\ UNCHANGED sideVars

\* No cluster object changes and no request arrives after the first
\* rebuild; the timer of the refresh keeps firing.
NextDrift ==
    \/ FirstReconcile
    \/ ExternalFlush
    \/ RefreshTick

SpecDrift == Init /\ [][NextDrift]_vars /\ WF_vars(RefreshTick)

\* ------------------------------------------------------------------------
\* Reconcile, step by step, with several calls in flight
\* ------------------------------------------------------------------------

\* The requests the controller hands to Reconcile, by kind.
Requests ==
    { [kind |-> "EgressGateway", req |-> NoRequest],
      [kind |-> "EgressPolicy", req |-> P1],
      [kind |-> "EgressClusterPolicy", req |-> P2],
      [kind |-> "EgressClusterInfo", req |-> NoRequest] }

\* A worker takes a request from the queue and calls Reconcile.
Arrive(w) ==
    /\ calls[w].pc = "idle"
    /\ \E c \in Requests :
         calls' = [calls EXCEPT ![w] = [pc |-> "once", kind |-> c.kind, req |-> c.req]]
    /\ UNCHANGED <<crdVars, agentVars, doOnce, last, input, output, fault>>

\* sync.Once.Do: the call goes on when the initializer is done, and takes
\* the slow path otherwise.
OnceFast(w) ==
    /\ calls[w].pc = "once"
    /\ calls' = [calls EXCEPT ![w].pc = IF doOnce THEN "dispatch" ELSE "lock"]
    /\ UNCHANGED <<crdVars, agentVars, doOnce, last, input, output, fault>>

\* The slow path: with the mutex of the Once, the call looks at done again;
\* it runs the initializer when done is still unset and goes on otherwise.
\* The call that runs the initializer holds the mutex.
OnceSlow(w) ==
    /\ calls[w].pc = "lock"
    /\ \A v \in Workers : calls[v].pc # "init"
    /\ calls' = [calls EXCEPT ![w].pc = IF doOnce THEN "dispatch" ELSE "init"]
    /\ UNCHANGED <<crdVars, agentVars, doOnce, last, input, output, fault>>

\* The outcomes of one run of initApplyPolicy inside the initializer: the
\* list of the gateways may fail (an error, nothing done), or the rebuild
\* runs on what the client returns.
InitRuns(ordUnSnat, ordSnat) ==
    { FailedOnFault(Agent), initApplyPolicy(Agent, ordUnSnat, ordSnat) }

\* A variant of RunInit that leaves the initializer after a failed rebuild.
RunInit_NoRetry(w) ==
    /\ calls[w].pc = "init"
    /\ \E ordUnSnat \in Orders(DOMAIN unSnatPolicies), ordSnat \in Orders(DOMAIN snatPolicies) :
        \E r \in InitRuns(ordUnSnat, ordSnat) :
           /\ Commit(r)
           /\ doOnce' = ~r.err
           /\ last' = Done("init", NoRequest, r.err)
           /\ calls' = [calls EXCEPT ![w].pc = "dispatch"]
    /\ UNCHANGED <<crdVars, input, output, fault>>

\* The initializer: one run of initApplyPolicy; after an error the call is
\* back at the label redo, after a success the Once is done and the call
\* goes on.
RunInit(w) ==
    /\ calls[w].pc = "init"
    /\ \E ordUnSnat \in Orders(DOMAIN unSnatPolicies), ordSnat \in Orders(DOMAIN snatPolicies) :
        \E r \in InitRuns(ordUnSnat, ordSnat) :
           /\ Commit(r)
           /\ doOnce' = ~r.err
           /\ last' = Done("init", NoRequest, r.err)
           /\ calls' = [calls EXCEPT ![w].pc = IF r.err THEN "init" ELSE "dispatch"]
    /\ UNCHANGED <<crdVars, input, output, fault>>

\* The switch on the kind of the request.
Handle(kind, req, st, ordUnSnat, ordSnat) ==
    CASE kind = "EgressGateway" -> reconcileGateway(st, ordUnSnat, ordSnat)
      [] kind = "EgressClusterPolicy" -> reconcileClusterPolicy(st, req)
      [] kind = "EgressPolicy" -> reconcilePolicy(st, req)
      [] kind = "EgressClusterInfo" -> reconcileClusterInfo(st)
      [] OTHER -> Fine(st)

Dispatch(w) ==
    /\ calls[w].pc = "dispatch"
    /\ \E ordUnSnat \in Orders(DOMAIN unSnatPolicies), ordSnat \in Orders(DOMAIN snatPolicies) :
        \E r \in {Handle(calls[w].kind, calls[w].req, Agent, ordUnSnat, ordSnat)} :
           /\ Commit(r)
           /\ last' = Done(calls[w].kind, calls[w].req, r.err)
    /\ calls' = [calls EXCEPT ![w] = IdleCall]
    /\ UNCHANGED <<crdVars, doOnce, input, output, fault>>

\* The agent starts with both policies bound; the destSubnets of ns1/app
\* may hold an entry that fails every rebuild until the policy is gone.
InitOnce ==
    /\ Init
    /\ gateways = GatewayList([p \in PolicyIds |->
                     IF p = P1 THEN Place("app", NodeName, EipBoth)
                     ELSE Place("web", "nodeB", EipBoth)])
    /\ egressNodes["nodeB"] = Node(MarkB)

NextOnce ==
    \/ \E w \in Workers : Arrive(w)
    \/ \E w \in Workers : OnceFast(w)
    \/ \E w \in Workers : OnceSlow(w)
    \/ \E w \in Workers : RunInit(w)
    \/ \E w \in Workers : Dispatch(w)
    \/ DeletePolicy(P1)

SpecOnce == InitOnce /\ [][NextOnce]_vars

\* ------------------------------------------------------------------------
\* Functions studied by themselves: findDiff
\* ------------------------------------------------------------------------

\* The agent at rest, with one call of a function to make: its arguments are
\* drawn from inputs.
StudyInit(inputs) ==
    /\ cfg = [EnableIPv4 |-> TRUE, EnableIPv6 |-> TRUE]
    /\ gateways = <<>>
    /\ policies = [p \in PolicyIds |-> NoPolicy]
    /\ slices = <<>>
    /\ egressNodes = [n \in RemoteNodes |-> NoNode]
    /\ clusterInfo = NoClusterInfo
    /\ AgentInit
    /\ calls = [w \in Workers |-> IdleCall]
    /\ input \in inputs
    /\ output = NoOutput
    /\ fault = NoFault

MaxDiffLen == 2

\* The entries of DstPool, and two entries as the kernel lists them:
\* "10.6.1.0/24" and "fd00::1".
DiffPool == DstPool \cup { V4(10, 6, 1, 0, 24), V6(64768, 1, NoPrefix) }
DiffLists == UNION { [1..n -> DiffPool] : n \in 0..MaxDiffLen }

InitDiff ==
    StudyInit({ [fn |-> "findDiff", oldList |-> a, newList |-> b] : a \in DiffLists, b \in DiffLists })

CallFindDiff ==
    /\ input.fn = "findDiff"
    /\ ~output.done
    /\ \E d \in {findDiff(input.oldList, input.newList)} :
         output' = [done |-> TRUE, toAdd |-> d.toAdd, toDel |-> d.toDel]
    /\ UNCHANGED <<crdVars, agentVars, doOnce, last, calls, input, fault>>

NextDiff == CallFindDiff

SpecDiff == InitDiff /\ [][NextDiff]_vars

\* ------------------------------------------------------------------------
\* Functions studied by themselves: formatIPSetName and its callers
\* ------------------------------------------------------------------------

NamePrefixes == {"egress-src-v4-", "egress-src-v6-", "egress-dst-v4-", "egress-dst-v6-"}
KeyNamespaces == {"", "ns1", "ns2", "kube-system"}
KeyNames == {"app", "web", "db", "a-very-long-policy-name-0123456789"}

InitName ==
    StudyInit({ [fn |-> "formatIPSetName", prefix |-> p, policy |-> [Name |-> n, Namespace |-> ns]] :
                p \in NamePrefixes, ns \in KeyNamespaces, n \in KeyNames })

\* The name formatIPSetName derives for the prefix and the policy key, the
\* set names of the policy, and the rules the two rule builders make for it
\* (with a dst set), per IP version.
CallFormatIPSetName ==
    /\ input.fn = "formatIPSetName"
    /\ ~output.done
    /\ output' =
          [done |-> TRUE,
           name |-> formatIPSetName(input.prefix, RuleName(input.policy)),
           sets |-> buildIPSetNamesByPolicy(input.policy.Namespace, input.policy.Name, TRUE, TRUE),
           markRule |-> [v \in {4, 6} |->
                           buildPolicyRule(RuleName(input.policy), NoMark, v, FALSE)],
           eipRule |-> [v \in {4, 6} |->
                          buildEipRule(RuleName(input.policy),
                                       [V4 |-> EipBoth.IPv4, V6 |-> EipBoth.IPv6], v, FALSE)]]
    /\ UNCHANGED <<crdVars, agentVars, doOnce, last, calls, input, fault>>

NextName == CallFormatIPSetName

SpecName == InitName /\ [][NextName]_vars

\* ------------------------------------------------------------------------
\* The watches of the policy controller
\* ------------------------------------------------------------------------

EventTypes == {"Create", "Update", "Delete", "Generic"}
WatchedKinds ==
    {"EgressGateway", "EgressPolicy", "EgressClusterPolicy",
     "EgressEndpointSlice", "EgressClusterEndpointSlice", "EgressClusterInfo"}
SliceKinds == {"EgressEndpointSlice", "EgressClusterEndpointSlice"}
NamespacedKinds == {"EgressPolicy", "EgressEndpointSlice"}

\* The key of the label that names the policy of a slice
\* (egressv1.LabelPolicyName), and a label the agent does not look at.
LabelPolicyName == "LabelPolicyName"
OtherLabel == <<"app.kubernetes.io/managed-by", "controller">>

\* obj.GetLabels()[key], as the value and the ok of the lookup.
GetLabel(obj, key) ==
    IF \E kv \in obj.Labels : kv[1] = key
    THEN [ok |-> TRUE, val |-> (CHOOSE kv \in obj.Labels : kv[1] = key)[2]]
    ELSE [ok |-> FALSE, val |-> ""]

\* path.Join of two elements that hold no slash and no dot: an empty
\* element is left out, the others are joined by a slash.
pathJoin(a, b) ==
    IF a = "" THEN b ELSE IF b = "" THEN a ELSE a \o "/" \o b

\* utils.KindToMapFlat(kind): the request that names the kind and the object.
KindToMapFlat(kind, obj) ==
    << [Namespace |-> pathJoin(kind, obj.Namespace), Name |-> obj.Name] >>

\* A variant of enqueueEndpointSlice that names the slice, not its policy.
enqueueEndpointSlice_SliceName(obj) ==
    IF ~GetLabel(obj, LabelPolicyName).ok THEN <<>>
    ELSE IF obj.Namespace = ""
         THEN << [Namespace |-> pathJoin("EgressClusterPolicy", obj.Namespace), Name |-> obj.Name] >>
         ELSE << [Namespace |-> pathJoin("EgressPolicy", obj.Namespace), Name |-> obj.Name] >>

enqueueEndpointSlice(obj) ==
    LET namespace == obj.Namespace
        policyName == GetLabel(obj, LabelPolicyName)
    IN IF ~policyName.ok THEN <<>>
       ELSE IF namespace = ""
            THEN << [Namespace |-> pathJoin("EgressClusterPolicy", namespace),
                     Name |-> policyName.val] >>
            ELSE << [Namespace |-> pathJoin("EgressPolicy", namespace),
                     Name |-> policyName.val] >>

\* A variant of policyPredicate that lets every event through.
policyPredicate_All(type) == TRUE

policyPredicate(type) ==
    CASE type = "Create" -> FALSE
      [] type = "Delete" -> TRUE
      [] type = "Update" -> TRUE
      [] type = "Generic" -> FALSE

epSlicePredicate(type) ==
    CASE type = "Create" -> FALSE
      [] type = "Delete" -> FALSE
      [] type = "Update" -> TRUE
      [] type = "Generic" -> FALSE

\* The predicates given to c.Watch for the kind: all of them must accept
\* the event, and a watch without predicates accepts every event.
WatchPredicates(kind, type) ==
    CASE kind \in {"EgressPolicy", "EgressClusterPolicy"} -> policyPredicate(type)
      [] kind \in SliceKinds -> epSlicePredicate(type)
      [] kind \in {"EgressGateway", "EgressClusterInfo"} -> TRUE

\* The map function given to c.Watch for the kind.
WatchMapFunc(kind, obj) ==
    IF kind \in SliceKinds THEN enqueueEndpointSlice(obj) ELSE KindToMapFlat(kind, obj)

\* The requests of a sequence, each one once, in the order they first come.
RECURSIVE Distinct(_)
Distinct(reqs) ==
    IF Len(reqs) = 0 THEN <<>>
    ELSE LET front == Distinct(SubSeq(reqs, 1, Len(reqs) - 1))
             r == reqs[Len(reqs)]
         IN IF r \in Range(front) THEN front ELSE Append(front, r)

\* handler.EnqueueRequestsFromMapFunc: a create, delete or generic event maps
\* its object; an update maps the old and then the new object; a request is
\* added to the queue once per event.
EnqueueRequestsFromMapFunc(kind, ev) ==
    IF ev.type = "Update"
    THEN Distinct(WatchMapFunc(kind, ev.old) \o WatchMapFunc(kind, ev.new))
    ELSE Distinct(WatchMapFunc(kind, ev.new))

\* c.Watch(source, handler, predicates...): what one event of the kind adds
\* to the queue.
Watch(kind, ev) ==
    IF WatchPredicates(kind, ev.type) THEN EnqueueRequestsFromMapFunc(kind, ev) ELSE <<>>

ObjectNames == {"app", "web"}
ObjectNamespaces == {"ns1", "ns2"}

\* The label sets of an object of the kind: a slice may name a policy, and
\* may carry the other label.
LabelSets(kind) ==
    IF kind \in SliceKinds
    THEN { {}, {OtherLabel}, {<<LabelPolicyName, "app">>}, {<<LabelPolicyName, "web">>, OtherLabel} }
    ELSE { {} }

Objects(kind) ==
    { [Namespace |-> ns, Name |-> n, Labels |-> l] :
        ns \in (IF kind \in NamespacedKinds THEN ObjectNamespaces ELSE {""}),
        n \in ObjectNames, l \in LabelSets(kind) }

\* The events of a kind: an update carries two versions of one object, which
\* differ at most in their labels; the other events carry one object.
Events(kind) ==
    { ev \in [type : EventTypes, old : Objects(kind), new : Objects(kind)] :
        /\ ev.old.Namespace = ev.new.Namespace
        /\ ev.old.Name = ev.new.Name
        /\ ev.type # "Update" => ev.old = ev.new }

InitWatch ==
    StudyInit(UNION { { [fn |-> "Watch", kind |-> k, ev |-> ev] : ev \in Events(k) } :
                      k \in WatchedKinds })

DeliverEvent ==
    /\ input.fn = "Watch"
    /\ ~output.done
    /\ output' = [done |-> TRUE, requests |-> Watch(input.kind, input.ev)]
    /\ UNCHANGED <<crdVars, agentVars, doOnce, last, calls, input, fault>>

NextWatch == DeliverEvent

SpecWatch == InitWatch /\ [][NextWatch]_vars

\* ------------------------------------------------------------------------
\* Sets that come and go behind the cache: restarts, foreign destroys
\* ------------------------------------------------------------------------

\* Does a rule of one of the tables name the set in its match.
RuleRefers(rule, name) ==
    name \in {rule.Match.SourceIPSet, rule.Match.DestIPSet, rule.Match.NotDestIPSet}
Referenced(t, name) ==
    \E k \in TableKeys, c \in ChainNames : \E i \in DOMAIN t[k][c] : RuleRefers(t[k][c][i], name)

\* The names of the four sets of a policy.
PolicySetNames(policy) ==
    { set.Name : set \in Range(buildIPSetNamesByPolicy(policy.Namespace, policy.Name, TRUE, TRUE)) }

\* Someone else destroys a set of the kernel that no rule of the kernel names
\* (the kernel refuses to destroy a set in use).
ExternalDestroy ==
    /\ \E name \in AllSetNames :
         /\ ipsets[name].exists
         /\ ~Referenced(kernelTables, name)
         /\ ipsets' = [ipsets EXCEPT ![name] = NoSet]
    /\ Observed
    /\ UNCHANGED <<crdVars, ipsetMap, tables, kernelTables, met, doOnce>>
    /\ UNCHANGED sideVars

\* The agent is started again: newPolicyController makes a reconciler with
\* an empty cache, empty table snapshots and a Once that has not run; the
\* kernel keeps its sets and chains.
Restart ==
    /\ doOnce
    /\ ipsetMap' = {}
    /\ tables' = [k \in TableKeys |-> EmptyTable]
    /\ met' = FALSE
    /\ doOnce' = FALSE
    /\ last' = Done("start", NoRequest, FALSE)
    /\ UNCHANGED <<crdVars, ipsets, kernelTables>>
    /\ UNCHANGED sideVars

\* Both families; ns1/app is bound to the gateway of its name, or not bound
\* while that gateway holds the cluster policy.
InitChurn ==
    /\ Init
    /\ cfg = [EnableIPv4 |-> TRUE, EnableIPv6 |-> TRUE]
    /\ gateways \in { GatewayList([p \in PolicyIds |-> IF p = P1 THEN b1 ELSE b2]) :
                        b1 \in {Unbound, Place("app", NodeName, EipBoth), Place("app", "nodeB", EipBoth)},
                        b2 \in {Place("app", NodeName, EipBoth)} }
    /\ policies[P1] = Policy(DestHostAndNet)
    /\ egressNodes["nodeB"] = Node(MarkB)

NextChurn ==
    \/ FirstReconcile
    \/ \E p \in PolicyIds : ReconcilePolicy(p)
    \/ \E p \in PolicyIds : ReconcileClusterPolicy(p)
    \/ \E p \in PolicyIds : DeletePolicy(p)
    \/ ExternalDestroy
    \/ Restart

SpecChurn == InitChurn /\ [][NextChurn]_vars

\* Sets destroyed behind an agent that keeps running: ns1/app, with or
\* without destSubnets, is bound to the gateway of its name or not bound.
InitGone ==
    /\ Init
    /\ cfg = [EnableIPv4 |-> TRUE, EnableIPv6 |-> TRUE]
    /\ gateways \in { GatewayList([p \in PolicyIds |-> IF p = P1 THEN b1 ELSE b2]) :
                        b1 \in {Unbound, Place("app", NodeName, EipBoth)},
                        b2 \in {Place("app", NodeName, EipBoth)} }
    /\ policies[P1] \in {Policy(<<>>), Policy(DestHostAndNet)}
    /\ egressNodes["nodeB"] = Node(MarkB)

NextGone ==
    \/ FirstReconcile
    \/ ReconcileGateway
    \/ \E p \in PolicyIds : ReconcilePolicy(p)
    \/ \E p \in PolicyIds : ReconcileClusterPolicy(p)
    \/ ExternalDestroy

SpecGone == InitGone /\ [][NextGone]_vars

\* ------------------------------------------------------------------------
\* Slices of two namespaces that carry the same policy-name label
\* ------------------------------------------------------------------------

\* A pod of namespace ns2 on the local node.
ForeignPod == [Node |-> NodeName, IPv4 |-> << V4(10, 244, 0, 11, NoPrefix) >>,
               IPv6 |-> << V6(64832, 11, NoPrefix) >>]

\* The slices of ns1/app and of the cluster policy, and a slice of namespace
\* ns2 labeled with the policy name "app".
InitNs ==
    /\ cfg \in Families
    /\ gateways \in { GatewayList([p \in PolicyIds |-> IF p = P1 THEN b1 ELSE Unbound]) :
                        b1 \in {Place("app", NodeName, EipBoth), Place("app", "nodeB", EipBoth)} }
    /\ policies = [p \in PolicyIds |-> IF p = P1 THEN Policy(DestHostAndNet) ELSE Policy(<<>>)]
    /\ slices = InitialSlices \o << Slice("ns2", "app", <<ForeignPod>>) >>
    /\ egressNodes = [n \in RemoteNodes |-> Node(IF n = "nodeB" THEN MarkB ELSE MarkC)]
    /\ clusterInfo = NoClusterInfo
    /\ AgentInit
    /\ SideInit

NextNs ==
    \/ FirstReconcile
    \/ ReconcileGateway
    \/ \E p \in PolicyIds : ReconcilePolicy(p)
    \/ DeleteSlice
    \/ DeletePolicy(P1)

SpecNs == InitNs /\ [][NextNs]_vars

\* ------------------------------------------------------------------------
\* The keys of two policies
\* ------------------------------------------------------------------------

\* Policy identities: cluster-scoped ones (no namespace) and namespaced
\* ones, some with '-' in the namespace or in the name.
KeyIdentities ==
    { [Namespace |-> "", Name |-> "app"], [Namespace |-> "", Name |-> "web"],
      [Namespace |-> "", Name |-> "ns1-app"], [Namespace |-> "ns1", Name |-> "app"],
      [Namespace |-> "ns1", Name |-> "web"], [Namespace |-> "ns2", Name |-> "app"],
      [Namespace |-> "kube-system", Name |-> "app"],
      [Namespace |-> "kube", Name |-> "system-app"] }

InitKey ==
    StudyInit({ in \in [fn : {"policyName"}, a : KeyIdentities, b : KeyIdentities] :
                in.a # in.b })

\* The keys of the two policies as the rule loops of initApplyPolicy make
\* them, and the names of their sets.
CallPolicyName ==
    /\ input.fn = "policyName"
    /\ ~output.done
    /\ output' =
          [done |-> TRUE,
           keyA |-> RuleName(input.a),
           keyB |-> RuleName(input.b),
           setsA |-> buildIPSetNamesByPolicy(input.a.Namespace, input.a.Name, TRUE, TRUE),
           setsB |-> buildIPSetNamesByPolicy(input.b.Namespace, input.b.Name, TRUE, TRUE)]
    /\ UNCHANGED <<crdVars, agentVars, doOnce, last, calls, input, fault>>

NextKey == CallPolicyName

SpecKey == InitKey /\ [][NextKey]_vars

\* ------------------------------------------------------------------------
\* Functions studied by themselves: parseMark
\* ------------------------------------------------------------------------

\* Marks of eight hex digits behind "0x", from "0x00000000" to "0xffffffff",
\* among them "0x26000001", "0x7fffffff" and "0x80000000".
Marks32 ==
    { <<"0", "x", d1, d2>> \o mid \o <<d8>> :
        d1 \in {"0", "2", "7", "8", "f"}, d2 \in {"0", "6", "f"},
        mid \in { <<"0", "0", "0", "0", "0">>, <<"f", "f", "f", "f", "f">> },
        d8 \in {"0", "1", "f"} }

\* Strings that are no hex number of at most 32 bits: "", "0x", "0xg0000000",
\* "0x100000000", "26 ".
NoMarks ==
    { <<>>, <<"0", "x">>, <<"0", "x", "g", "0", "0", "0", "0", "0", "0", "0">>,
      <<"0", "x", "1", "0", "0", "0", "0", "0", "0", "0", "0">>,
      <<"2", "6", " ">> }

InitMark == StudyInit({ [fn |-> "parseMark", mark |-> m] : m \in Marks32 \cup NoMarks })

CallParseMark ==
    /\ input.fn = "parseMark"
    /\ ~output.done
    /\ \E r \in {parseMark(input.mark)} :
         output' = [done |-> TRUE, err |-> r.err, val |-> r.val]
    /\ UNCHANGED <<crdVars, agentVars, doOnce, last, calls, input, fault>>

NextMark == CallParseMark

SpecMark == InitMark /\ [][NextMark]_vars

\* ------------------------------------------------------------------------
\* Vocabulary of the properties
\* ------------------------------------------------------------------------

EnabledFamilies == (IF cfg.EnableIPv4 THEN {4} ELSE {}) \cup (IF cfg.EnableIPv6 THEN {6} ELSE {})

FamilyTag(fam) == IF fam = 4 THEN "v4-" ELSE "v6-"
SrcSetOf(policy, fam) ==
    "egress-src-" \o FamilyTag(fam) \o SubSeq(Sha1Hex(RuleName(policy)), 1, 17)
DstSetOf(policy, fam) ==
    "egress-dst-" \o FamilyTag(fam) \o SubSeq(Sha1Hex(RuleName(policy)), 1, 17)
IgnoreSetOf(fam) == IF fam = 4 THEN "egress-cluster-cidr-ipv4" ELSE "egress-cluster-cidr-ipv6"

\* What the gateways' status says about a policy.
BoundPolicies == { e.Policy : e \in Range(StatusEntries(gateways)) }
EipOnLocalNode(policy) ==
    \E e \in Range(StatusEntries(gateways)) : e.Policy = policy /\ e.Node = NodeName
EipOnRemoteNode(policy) ==
    \E e \in Range(StatusEntries(gateways)) : e.Policy = policy /\ e.Node # NodeName
EipNodeOf(policy) ==
    (CHOOSE e \in Range(StatusEntries(gateways)) : e.Policy = policy).Node
EipOf(policy, fam) ==
    LET e == CHOOSE x \in Range(StatusEntries(gateways)) : x.Policy = policy
    IN IF fam = 4 THEN e.IPv4 ELSE e.IPv6

\* The handler that completed last.
RebuildDone == last.op \in {"init", "EgressGateway"} /\ ~last.err
RebuildRan == RebuildDone /\ Len(gateways) > 0
PolicyPassDone(policy) ==
    last.op \in {"EgressPolicy", "EgressClusterPolicy"} /\ last.policy = policy /\ ~last.err
UpsertDone(policy) ==
    \/ PolicyPassDone(policy) /\ ~PolicyDeleted(policy)
    \/ RebuildRan /\ policy \in BoundPolicies
DeleteDone(policy) == PolicyPassDone(policy) /\ PolicyDeleted(policy)

MarkChainOf(fam) == kernelTables[<<"mangle", fam>>][MarkChain]
SnatChainOf(fam) == kernelTables[<<"nat", fam>>][SnatChain]
RulesFor(chain, policy, fam) ==
    { i \in DOMAIN chain : chain[i].Match.SourceIPSet = SrcSetOf(policy, fam) }

\* ------------------------------------------------------------------------
\* A backend that fails for a while
\* ------------------------------------------------------------------------

\* An AddEntry or a DelEntry on a set may be the first or the second of its
\* pass that fails.
MaxFaultNth == 2

\* The sets whose calls may fail.
FaultSets == {SrcSetOf(P1, 4), DstSetOf(P1, 6)}

\* The calls that may fail: the lists and gets of the API, the calls on two
\* sets of ns1/app, the Apply of a table.
Faults ==
    { Failing("List", "EgressGateway"), Failing("List", SliceKindOf(P1.Namespace)),
      Failing("GetPolicy", RuleName(P1)), Failing("GetGateway", P1.Name),
      Failing("GetNode", "nodeB"), Failing("Apply", TableId(<<"nat", 4>>)) }
    \cup { Failing(call, name) : call \in {"CreateSet", "ListEntries", "DestroySet"},
                                 name \in FaultSets }
    \cup { [call |-> call, on |-> name, nth |-> i] :
             call \in {"AddEntry", "DelEntry"}, name \in FaultSets, i \in 1..MaxFaultNth }

\* One call of the backend starts to fail, and fails until the backend
\* recovers.  No handler has run: the record of the last one stays.
BackendFails ==
    /\ fault = NoFault
    /\ fault' \in Faults
    /\ UNCHANGED <<crdVars, agentVars, doOnce, last>>
    /\ UNCHANGED <<calls, input, output>>

BackendRecovers ==
    /\ fault # NoFault
    /\ fault' = NoFault
    /\ UNCHANGED <<crdVars, agentVars, doOnce, last>>
    /\ UNCHANGED <<calls, input, output>>

\* "fd00::1/32"
DestNet32 == << V6(64768, 1, 32) >>

\* Both families; gateway "app" holds ns1/app on the local node, gateway
\* "web" holds the cluster policy on nodeB.
InitFault ==
    /\ cfg = [EnableIPv4 |-> TRUE, EnableIPv6 |-> TRUE]
    /\ gateways = GatewayList([p \in PolicyIds |->
                     IF p = P1 THEN Place("app", NodeName, EipBoth)
                               ELSE Place("web", "nodeB", EipBoth)])
    /\ \E dest \in {DestHostAndNet, DestNet32} :
         policies = [p \in PolicyIds |-> IF p = P1 THEN Policy(dest) ELSE Policy(<<>>)]
    /\ slices = InitialSlices
    /\ egressNodes = [n \in RemoteNodes |-> Node(IF n = "nodeB" THEN MarkB ELSE MarkC)]
    /\ clusterInfo = NoClusterInfo
    /\ AgentInit
    /\ SideInit

NextFault ==
    \/ FirstReconcile
    \/ ReconcileGateway
    \/ \E p \in PolicyIds : ReconcilePolicy(p)
    \/ \E p \in PolicyIds : ReconcileClusterPolicy(p)
    \/ DeletePolicy(P1)
    \/ DeleteSlice
    \/ BackendFails
    \/ BackendRecovers

SpecFault == InitFault /\ [][NextFault]_vars

\* ------------------------------------------------------------------------
\* A backend that refuses an addition
\* ------------------------------------------------------------------------

\* The AddEntry calls that may fail: the first on the IPv6 dst set of
\* ns1/app, the first on either cluster-ignore set.
AddFaults ==
    { Failing("AddEntry", name) :
        name \in {DstSetOf(P1, 6), EgressClusterCIDRIPv4, EgressClusterCIDRIPv6} }

AddEntryFails ==
    /\ fault = NoFault
    /\ fault' \in AddFaults
    /\ UNCHANGED <<crdVars, agentVars, doOnce, last>>
    /\ UNCHANGED <<calls, input, output>>

\* The EgressClusterInfos without cluster-IP list and with at most one node.
SmallInfos ==
    { info \in ClusterInfos : info.ClusterIP = NoLists /\ Len(info.NodeIP.IPv4) <= 1 }

\* The node list or the pod networks of the EgressClusterInfo change.
NodesOrPodsChange ==
    /\ clusterInfo' \in SmallInfos
    /\ UpdateClusterInfo

\* Both families; ns1/app on the local node, the EgressClusterInfo there.
InitAdd ==
    /\ cfg = [EnableIPv4 |-> TRUE, EnableIPv6 |-> TRUE]
    /\ gateways = GatewayList([p \in PolicyIds |->
                     IF p = P1 THEN Place("app", NodeName, EipBoth) ELSE Unbound])
    /\ policies = [p \in PolicyIds |-> IF p = P1 THEN Policy(DestHostAndNet) ELSE Policy(<<>>)]
    /\ slices = InitialSlices
    /\ egressNodes = [n \in RemoteNodes |-> Node(IF n = "nodeB" THEN MarkB ELSE MarkC)]
    /\ clusterInfo \in SmallInfos
    /\ AgentInit
    /\ SideInit

NextAdd ==
    \/ FirstReconcile
    \/ ReconcilePolicy(P1)
    \/ ReconcileClusterInfo
    \/ DeleteSlice
    \/ NodesOrPodsChange
    \/ AddEntryFails
    \/ BackendRecovers

SpecAdd == InitAdd /\ [][NextAdd]_vars

\* ------------------------------------------------------------------------
\* Passes of two workers, one backend call at a time
\* ------------------------------------------------------------------------

\* A worker without a pass.  A pass holds the runs of updatePolicyIPSet it
\* still has to make (policy and isEipNodeSet), the sets the current run
\* still has to create or list, and the toAddList and toDelList entries it
\* still has to issue.
ParIdle ==
    [pc |-> "idle", kind |-> "", req |-> NoRequest, todo |-> <<>>, sets |-> <<>>,
     adds |-> <<>>, dels |-> <<>>, err |-> FALSE]

SetNamesOf(policy) ==
    buildIPSetNamesByPolicy(policy.Namespace, policy.Name, cfg.EnableIPv4, cfg.EnableIPv6)

\* The sets that get an entry of toAddList and toDelList.
DiffedSet(set) == (set.Stack = IPv4 /\ cfg.EnableIPv4) \/ cfg.EnableIPv6

\* The list a set is diffed against.
NewMembers(set, run) ==
    LET src == getPolicySrcIPs(run.policy.Namespace, run.policy.Name, run.flag)
        dst == getDstCIDR(PolicyDestSubnet(run.policy))
    IN IF set.Kind = IPSrc
       THEN (IF set.Stack = IPv4 /\ cfg.EnableIPv4 THEN src.v4 ELSE src.v6)
       ELSE (IF set.Stack = IPv4 /\ cfg.EnableIPv4 THEN dst.v4 ELSE dst.v6)

\* The pass of worker w returns.
Finish(w, err) ==
    /\ calls' = [calls EXCEPT ![w] = [ParIdle EXCEPT !.pc = "done", !.kind = calls[w].kind,
                                                     !.req = calls[w].req, !.err = err]]
    /\ last' = Done(calls[w].kind, calls[w].req, err)

\* No worker has taken the reconcile key.
KeyFree(kind, req) ==
    \A w \in Workers : ~(calls[w].kind = kind /\ calls[w].req = req)

\* reconcileGateway starts: initApplyPolicy lists the gateways and fills the
\* two policy maps.
StartRebuild(w) ==
    /\ doOnce
    /\ calls[w].pc = "idle"
    /\ KeyFree("EgressGateway", NoRequest)
    /\ \E ordUnSnat \in Orders(DOMAIN unSnatPolicies), ordSnat \in Orders(DOMAIN snatPolicies) :
         calls' = [calls EXCEPT ![w] =
             [ParIdle EXCEPT !.pc = IF Len(gateways) = 0 THEN "done" ELSE "begin",
                             !.kind = "EgressGateway",
                             !.todo = MapSeq(ordUnSnat, LAMBDA p : [policy |-> p, flag |-> FALSE])
                                          \o MapSeq(ordSnat, LAMBDA p : [policy |-> p, flag |-> TRUE])]]
    /\ UNCHANGED <<crdVars, agentVars, doOnce, last, input, output, fault>>

\* reconcilePolicy / reconcileClusterPolicy of a policy that is there starts:
\* the gateway named like the policy is fetched and gives the flag.
StartPolicy(w, req) ==
    /\ doOnce
    /\ calls[w].pc = "idle"
    /\ ~PolicyDeleted(req)
    /\ \E kind \in {IF req.Namespace = "" THEN "EgressClusterPolicy" ELSE "EgressPolicy"} :
         /\ KeyFree(kind, req)
         /\ IF Len(GatewayNamed(req.Name)) = 0
            THEN /\ calls' = [calls EXCEPT ![w] =
                        [ParIdle EXCEPT !.pc = "done", !.kind = kind, !.req = req, !.err = TRUE]]
                 /\ last' = Done(kind, req, TRUE)
            ELSE /\ calls' = [calls EXCEPT ![w] =
                        [ParIdle EXCEPT !.pc = "begin", !.kind = kind, !.req = req,
                            !.todo = << [policy |-> req,
                                         flag |-> GatewayNodeOf(GatewayNamed(req.Name)[1], req)
                                                      = NodeName] >>]]
                 /\ UNCHANGED last
    /\ UNCHANGED <<crdVars, agentVars, doOnce, input, output, fault>>

\* updatePolicyIPSet starts: the two lists are computed.
BeginRun(w) ==
    /\ calls[w].pc = "begin"
    /\ IF getDstCIDR(PolicyDestSubnet(Head(calls[w].todo).policy)).err
       THEN Finish(w, TRUE)
       ELSE /\ calls' = [calls EXCEPT ![w].pc = "create",
                                      ![w].sets = SetNamesOf(Head(calls[w].todo).policy)]
            /\ UNCHANGED last
    /\ UNCHANGED <<crdVars, agentVars, doOnce, input, output, fault>>

\* One createIPSet.
CreateOne(w) ==
    /\ calls[w].pc = "create"
    /\ IF Len(calls[w].sets) = 0
       THEN /\ calls' = [calls EXCEPT ![w].pc = "list",
                                      ![w].sets = SelectSeq(SetNamesOf(Head(calls[w].todo).policy),
                                                            DiffedSet)]
            /\ UNCHANGED <<agentVars, last>>
       ELSE \E r \in {createIPSet(Agent, Head(calls[w].sets))} :
              /\ Commit(r)
              /\ IF r.err THEN Finish(w, TRUE)
                 ELSE calls' = [calls EXCEPT ![w].sets = Tail(@)] /\ UNCHANGED last
    /\ UNCHANGED <<crdVars, doOnce, input, output, fault>>

\* One ListEntries, and the findDiff of its result.
ListOne(w) ==
    /\ calls[w].pc = "list"
    /\ IF Len(calls[w].sets) = 0
       THEN calls' = [calls EXCEPT ![w].pc = "add"]
       ELSE \E set \in {Head(calls[w].sets)} :
            \E l \in {ListEntries(ipsets, set.Name)} :
            \E d \in {findDiff(IF l.err THEN <<>> ELSE l.list,
                               NewMembers(set, Head(calls[w].todo)))} :
              calls' = [calls EXCEPT
                  ![w].sets = Tail(@),
                  ![w].adds = @ \o MapSeq(d.toAdd, LAMBDA ip : [set |-> set.Name, entry |-> ip]),
                  ![w].dels = @ \o MapSeq(d.toDel, LAMBDA ip : [set |-> set.Name, entry |-> ip])]
    /\ UNCHANGED <<crdVars, agentVars, doOnce, last, input, output, fault>>

\* One AddEntry, on a set of the cache.
AddOne(w) ==
    /\ calls[w].pc = "add"
    /\ IF Len(calls[w].adds) = 0
       THEN calls' = [calls EXCEPT ![w].pc = "del"] /\ UNCHANGED <<ipsets, last>>
       ELSE \E op \in {Head(calls[w].adds)} :
              IF op.set \notin ipsetMap
              THEN calls' = [calls EXCEPT ![w].adds = Tail(@)] /\ UNCHANGED <<ipsets, last>>
              ELSE \E r \in {AddEntry(ipsets, op.entry, op.set)} :
                     /\ ipsets' = r.k
                     /\ IF r.err THEN Finish(w, TRUE)
                        ELSE calls' = [calls EXCEPT ![w].adds = Tail(@)] /\ UNCHANGED last
    /\ UNCHANGED <<crdVars, ipsetMap, tables, kernelTables, met, doOnce, input, output, fault>>

\* One DelEntry; after the last one the run of updatePolicyIPSet is over.
DelOne(w) ==
    /\ calls[w].pc = "del"
    /\ IF Len(calls[w].dels) = 0
       THEN /\ UNCHANGED ipsets
            /\ IF Len(calls[w].todo) > 1
               THEN calls' = [calls EXCEPT ![w].pc = "begin", ![w].todo = Tail(@)]
                    /\ UNCHANGED last
               ELSE IF calls[w].kind = "EgressGateway"
               THEN calls' = [calls EXCEPT ![w].pc = "tables", ![w].todo = <<>>]
                    /\ UNCHANGED last
               ELSE Finish(w, FALSE)
       ELSE \E op \in {Head(calls[w].dels)} :
            \E r \in {DelEntry(ipsets, op.entry, op.set)} :
              /\ ipsets' = r.k
              /\ IF r.err THEN Finish(w, TRUE)
                 ELSE calls' = [calls EXCEPT ![w].dels = Tail(@)] /\ UNCHANGED last
    /\ UNCHANGED <<crdVars, ipsetMap, tables, kernelTables, met, doOnce, input, output, fault>>

\* The rest of initApplyPolicy: the chains are built and the tables applied.
ApplyTables(w) ==
    /\ calls[w].pc = "tables"
    /\ \E ordUnSnat \in Orders(DOMAIN unSnatPolicies), ordSnat \in Orders(DOMAIN snatPolicies) :
        \E r \in {initApplyPolicy(Agent, ordUnSnat, ordSnat)} :
           /\ tables' = r.st.tables
           /\ kernelTables' = r.st.kernelTables
           /\ Finish(w, r.err)
    /\ UNCHANGED <<crdVars, ipsetMap, ipsets, met, doOnce, input, output, fault>>

\* A slice is deleted while no pass runs.
SliceGoes ==
    /\ \A w \in Workers : calls[w].pc = "idle"
    /\ DeleteSlice

\* Both families; ns1/app has its EIP on the local node, in the status of
\* the gateway of its name or of gateway "web"; gateway "app" holds the
\* cluster policy too.
InitPar ==
    /\ cfg = [EnableIPv4 |-> TRUE, EnableIPv6 |-> TRUE]
    /\ gateways \in { GatewayList([p \in PolicyIds |-> IF p = P1 THEN b1 ELSE b2]) :
                        b1 \in {Place("app", NodeName, EipBoth), Place("web", NodeName, EipBoth)},
                        b2 \in {Place("app", NodeName, EipBoth)} }
    /\ policies = [p \in PolicyIds |-> IF p = P1 THEN Policy(DestHostAndNet) ELSE Policy(<<>>)]
    /\ slices = InitialSlices
    /\ egressNodes = [n \in RemoteNodes |-> Node(IF n = "nodeB" THEN MarkB ELSE MarkC)]
    /\ clusterInfo = NoClusterInfo
    /\ AgentInit
    /\ calls = [w \in Workers |-> ParIdle]
    /\ input = NoInput
    /\ output = NoOutput
    /\ fault = NoFault

NextPar ==
    \/ FirstReconcile
    \/ SliceGoes
    \/ \E w \in Workers : StartRebuild(w)
    \/ \E w \in Workers, p \in PolicyIds : StartPolicy(w, p)
    \/ \E w \in Workers : BeginRun(w)
    \/ \E w \in Workers : CreateOne(w)
    \/ \E w \in Workers : ListOne(w)
    \/ \E w \in Workers : AddOne(w)
    \/ \E w \in Workers : DelOne(w)
    \/ \E w \in Workers : ApplyTables(w)

SpecPar == InitPar /\ [][NextPar]_vars

\* ------------------------------------------------------------------------
\* C1
\* ------------------------------------------------------------------------

ExpectedSrc(policy, fam) ==
    { ip \in UNION { Range(IF fam = 4 THEN e.IPv4 ELSE e.IPv6) :
                     e \in UNION { Range(ep.Endpoints) :
                                   ep \in { x \in Range(slices) :
                                            ~x.Deleting /\ x.PolicyLabel = policy.Name } } } :
        \E ep \in Range(slices) :
            /\ ~ep.Deleting /\ ep.PolicyLabel = policy.Name
            /\ \E e \in Range(ep.Endpoints) :
                 /\ ip \in Range(IF fam = 4 THEN e.IPv4 ELSE e.IPv6)
                 /\ (e.Node = NodeName \/ EipOnLocalNode(policy)) }

\* C1: after a successful upsert pass for a policy, each enabled family's
\* src set holds exactly the addresses of the endpoints (of live slices
\* labeled with the policy's name) that are on the local node or, when the
\* policy's EIP is on the local node, anywhere.
C1_SrcSetExact ==
    \A policy \in PolicyIds :
        UpsertDone(policy) =>
            \A fam \in EnabledFamilies :
                ipsets[SrcSetOf(policy, fam)].members = ExpectedSrc(policy, fam)

\* ------------------------------------------------------------------------
\* C2
\* ------------------------------------------------------------------------

\* The canonical form of a destSubnets entry: a host (full prefix length, or
\* none) is its address, a network is its masked address with its length.
CanonicalSubnet(s) ==
    IF s.plen = NoPrefix \/ (s.fam = 4 /\ s.plen = 32) \/ (s.fam = 6 /\ s.plen = 128)
    THEN [fam |-> s.fam, ip |-> s.ip, plen |-> NoPrefix]
    ELSE [fam |-> s.fam, ip |-> MaskIP(s.fam, s.ip, s.plen), plen |-> s.plen]

\* C2: after a successful upsert pass for a policy, each enabled family's
\* dst set holds exactly the canonical forms of the policy's destSubnets of
\* that family: networks (IPv6 networks of length /32 included) as masked
\* network with length, hosts as the bare address.
C2_DstSetCanonical ==
    \A policy \in PolicyIds :
        UpsertDone(policy) =>
            \A fam \in EnabledFamilies :
                ipsets[DstSetOf(policy, fam)].members =
                    { CanonicalSubnet(s) :
                        s \in { x \in Range(PolicyDestSubnet(policy)) : x.fam = fam } }

\* ------------------------------------------------------------------------
\* C3
\* ------------------------------------------------------------------------

Count(chain, policy, fam) == Cardinality(RulesFor(chain, policy, fam))

\* C3 as stated: after a successful rebuild every policy listed in a gateway
\* status has, per enabled family, exactly one rule in the mark chain iff its
\* EIP is on another node and exactly one in the SNAT chain iff its EIP is on
\* the local node; never both, never neither.
C3_ExactlyOneRule ==
    RebuildRan =>
        \A policy \in BoundPolicies : \A fam \in EnabledFamilies :
            /\ Count(MarkChainOf(fam), policy, fam) = (IF EipOnRemoteNode(policy) THEN 1 ELSE 0)
            /\ Count(SnatChainOf(fam), policy, fam) = (IF EipOnLocalNode(policy) THEN 1 ELSE 0)
            /\ Count(MarkChainOf(fam), policy, fam) + Count(SnatChainOf(fam), policy, fam) = 1

\* C3 amended: the mark rule exists iff the EIP is on another node whose
\* EgressNode object can be read; the SNAT rule exists iff the EIP is on the
\* local node and has at least one address; a policy never has both.
C3_OneRuleWhenBuildable ==
    RebuildRan =>
        \A policy \in BoundPolicies : \A fam \in EnabledFamilies :
            /\ Count(MarkChainOf(fam), policy, fam) =
                 (IF EipOnRemoteNode(policy) /\ egressNodes[EipNodeOf(policy)].exists
                  THEN 1 ELSE 0)
            /\ Count(SnatChainOf(fam), policy, fam) =
                 (IF EipOnLocalNode(policy)
                     /\ (EipOf(policy, 4) # "" \/ EipOf(policy, 6) # "")
                  THEN 1 ELSE 0)
            /\ Count(MarkChainOf(fam), policy, fam) + Count(SnatChainOf(fam), policy, fam) <= 1

C3_Witness ==
    /\ RebuildRan
    /\ \E policy \in BoundPolicies, other \in BoundPolicies, fam \in EnabledFamilies :
         /\ EipOnRemoteNode(policy) /\ Count(MarkChainOf(fam), policy, fam) = 1
         /\ EipOnLocalNode(other) /\ Count(SnatChainOf(fam), other, fam) = 1

\* ------------------------------------------------------------------------
\* C4
\* ------------------------------------------------------------------------

ExpectedMatch(policy, fam) ==
    IF Len(PolicyDestSubnet(policy)) = 0
    THEN [EmptyMatch EXCEPT !.SourceIPSet = SrcSetOf(policy, fam),
                            !.CTDirection = "ORIGINAL",
                            !.NotDestIPSet = IgnoreSetOf(fam)]
    ELSE [EmptyMatch EXCEPT !.SourceIPSet = SrcSetOf(policy, fam),
                            !.CTDirection = "ORIGINAL",
                            !.DestIPSet = DstSetOf(policy, fam)]

\* C4: every rule a rebuild puts into the mark chain or the SNAT chain
\* matches source in the policy's src set and conntrack direction ORIGINAL,
\* and destination NOT in the family's cluster-ignore set when the policy's
\* destSubnets is empty, destination in the policy's dst set otherwise; mark
\* rules and SNAT rules have the same match.
C4_MatchShape ==
    RebuildRan =>
        \A fam \in EnabledFamilies :
            \A chain \in {MarkChainOf(fam), SnatChainOf(fam)} :
                \A i \in DOMAIN chain :
                    \E policy \in BoundPolicies : chain[i].Match = ExpectedMatch(policy, fam)

C4_Witness ==
    /\ RebuildRan
    /\ \E fam \in EnabledFamilies, policy \in BoundPolicies, other \in BoundPolicies :
         /\ Len(PolicyDestSubnet(policy)) > 0 /\ Len(PolicyDestSubnet(other)) = 0
         /\ Count(MarkChainOf(fam), policy, fam) = 1
         /\ Count(SnatChainOf(fam), other, fam) = 1

\* ------------------------------------------------------------------------
\* C5
\* ------------------------------------------------------------------------

\* C5: after a delete reconcile for a policy completes, none of its four
\* sets exists in the kernel and neither chain holds a rule of the policy.
C5_DeleteLeavesNothing ==
    \A policy \in PolicyIds :
        DeleteDone(policy) =>
            \A fam \in {4, 6} :
                /\ ~ipsets[SrcSetOf(policy, fam)].exists
                /\ ~ipsets[DstSetOf(policy, fam)].exists
                /\ Count(MarkChainOf(fam), policy, fam) = 0
                /\ Count(SnatChainOf(fam), policy, fam) = 0

\* ------------------------------------------------------------------------
\* C6
\* ------------------------------------------------------------------------

\* C6: after a successful gateway reconcile the mark chain and the SNAT
\* chain hold rules of currently bound policies only; with an empty gateway
\* list both chains are empty.
C6_OnlyBoundPolicies ==
    RebuildDone =>
        \A fam \in EnabledFamilies :
            \A chain \in {MarkChainOf(fam), SnatChainOf(fam)} :
                \A i \in DOMAIN chain :
                    \E policy \in BoundPolicies :
                        chain[i].Match.SourceIPSet = SrcSetOf(policy, fam)

\* ------------------------------------------------------------------------
\* C7
\* ------------------------------------------------------------------------

InfoDone == last.op = "EgressClusterInfo" /\ ~last.err /\ clusterInfo.exists /\ ~clusterInfo.deleting

\* The entries the EgressClusterInfo and the configuration ask for, per
\* family, in the form the kernel lists them.
WantIgnore(fam) ==
    LET lists == IF fam = 4
                 THEN clusterInfo.NodeIP.IPv4 \o clusterInfo.PodCIDR.IPv4
                        \o clusterInfo.ClusterIP.IPv4
                 ELSE clusterInfo.NodeIP.IPv6 \o clusterInfo.PodCIDR.IPv6
                        \o clusterInfo.ClusterIP.IPv6
    IN { CanonicalSubnet(x) :
           x \in Range(lists) \cup { c \in Range(CustomIgnoreCIDR) : c.fam = fam } }

\* C7: after a successful cluster-ignore reconcile each cluster-ignore set
\* holds exactly the wanted entries: what was missing has been added, what
\* was not wanted has been removed, what was wanted and present is still
\* present.
C7_IgnoreSetEqualsWant ==
    InfoDone => \A fam \in {4, 6} : ipsets[IgnoreSetOf(fam)].members = WantIgnore(fam)

\* ------------------------------------------------------------------------
\* C8
\* ------------------------------------------------------------------------

\* C8: every SNAT rule in the family-f nat table rewrites the source to the
\* policy's non-empty family-f EIP address; a local policy without a
\* family-f address has no SNAT rule in the family-f table.
C8_SnatToFamilyEip ==
    RebuildRan =>
        \A fam \in EnabledFamilies : \A policy \in BoundPolicies :
            /\ \A i \in RulesFor(SnatChainOf(fam), policy, fam) :
                 /\ SnatChainOf(fam)[i].Action.Type = "SNAT"
                 /\ SnatChainOf(fam)[i].Action.ToAddr # ""
                 /\ SnatChainOf(fam)[i].Action.ToAddr = EipOf(policy, fam)
            /\ (EipOnLocalNode(policy) /\ EipOf(policy, fam) = "")
                 => Count(SnatChainOf(fam), policy, fam) = 0

\* ------------------------------------------------------------------------
\* C9
\* ------------------------------------------------------------------------

\* The numeric value of the mark texts the EgressNode objects carry.
MarkValueOf(text) ==
    IF text = MarkB THEN U32(9728, 1)
    ELSE IF text = MarkC THEN U32(9728, 2)
    ELSE NoMark

\* C9: every rule of the mark chain belongs to a policy whose EIP is on
\* another node and sets the packet mark to the status.mark of the
\* EgressNode of that node, under the mask 0xffffffff.
C9_MarkOfEipNode ==
    RebuildRan =>
        \A fam \in EnabledFamilies : \A i \in DOMAIN MarkChainOf(fam) :
            \E policy \in BoundPolicies :
                /\ EipOnRemoteNode(policy)
                /\ MarkChainOf(fam)[i].Match.SourceIPSet = SrcSetOf(policy, fam)
                /\ MarkChainOf(fam)[i].Action.Type = "SetMaskedMark"
                /\ MarkChainOf(fam)[i].Action.Mark = MarkValueOf(egressNodes[EipNodeOf(policy)].Mark)
                /\ MarkChainOf(fam)[i].Action.Mask = U32(65535, 65535)

C9_Witness ==
    /\ RebuildRan
    /\ \E fam \in EnabledFamilies, policy \in BoundPolicies, other \in BoundPolicies :
         /\ EipNodeOf(policy) = "nodeB" /\ EipNodeOf(other) = "nodeC"
         /\ Count(MarkChainOf(fam), policy, fam) = 1
         /\ Count(MarkChainOf(fam), other, fam) = 1

\* ------------------------------------------------------------------------
\* C10
\* ------------------------------------------------------------------------

BaseMark == U32(9728, 0)
AcceptOnBaseMark ==
    [nil |-> FALSE,
     Match |-> [EmptyMatch EXCEPT !.MarkSet = TRUE, !.Mark = BaseMark,
                                  !.Mask = U32(65535, 65535)],
     Action |-> AcceptAction]
HasRule(table, chain, rule) == \E i \in DOMAIN table[chain] : table[chain][i] = rule
RuleBefore(table, chain, first, second) ==
    \E i, j \in DOMAIN table[chain] :
        i < j /\ table[chain][i] = first /\ table[chain][j] = second

\* C10: after every successful gateway reconcile the table snapshot of each
\* enabled family holds the static glue rules: accept on the base mark in
\* filter FORWARD and OUTPUT, the re-mark rule in mangle FORWARD, accept in
\* mangle POSTROUTING, the jump to the mark chain in mangle PREROUTING, and
\* in nat POSTROUTING accept followed by the jump to the SNAT chain.
C10_StaticGlue ==
    RebuildDone =>
        \A fam \in EnabledFamilies :
            /\ HasRule(tables[<<"filter", fam>>], "FORWARD", AcceptOnBaseMark)
            /\ HasRule(tables[<<"filter", fam>>], "OUTPUT", AcceptOnBaseMark)
            /\ HasRule(tables[<<"mangle", fam>>], "FORWARD",
                       [nil |-> FALSE,
                        Match |-> [EmptyMatch EXCEPT !.MarkSet = TRUE, !.Mark = BaseMark,
                                                     !.Mask = U32(65280, 0)],
                        Action |-> SetMaskedMarkAction(BaseMark, U32(65535, 65535))])
            /\ HasRule(tables[<<"mangle", fam>>], "POSTROUTING", AcceptOnBaseMark)
            /\ HasRule(tables[<<"mangle", fam>>], "PREROUTING",
                       [nil |-> FALSE, Match |-> EmptyMatch, Action |-> JumpAction(MarkChain)])
            /\ RuleBefore(tables[<<"nat", fam>>], "POSTROUTING", AcceptOnBaseMark,
                          [nil |-> FALSE, Match |-> EmptyMatch, Action |-> JumpAction(SnatChain)])

\* ------------------------------------------------------------------------
\* C11
\* ------------------------------------------------------------------------

\* The same rules, each as often, whatever their order (the order of a chain
\* the agent owns follows the iteration order of a map).
SameRules(a, b) ==
    \A r \in Range(a) \cup Range(b) :
        Cardinality({ i \in DOMAIN a : a[i] = r }) = Cardinality({ i \in DOMAIN b : b[i] = r })

\* A gateway reconcile that runs right after a successful rebuild, the
\* cluster objects unchanged in between.
SecondRebuild == RebuildRan /\ last'.op = "EgressGateway"

SnatRulesPresent ==
    \A fam \in EnabledFamilies : \A policy \in BoundPolicies :
        (EipOnLocalNode(policy) /\ (EipOf(policy, 4) # "" \/ EipOf(policy, 6) # ""))
            => Count(SnatChainOf(fam), policy, fam) = 1

RebindReconciled(policy) ==
    /\ last.op = "rebind" /\ last.policy = policy
    /\ last'.op = "EgressGateway" /\ ~last'.err

NoSnatRule(policy) ==
    \A fam \in EnabledFamilies : Count(SnatChainOf(fam), policy, fam) = 0

\* One rule of the policy in the mark chain, with the mark of the EgressNode
\* of the node that holds the EIP now.
OneMarkRule(policy) ==
    \A fam \in EnabledFamilies :
        /\ Count(MarkChainOf(fam), policy, fam) = 1
        /\ \A i \in RulesFor(MarkChainOf(fam), policy, fam) :
             MarkChainOf(fam)[i].Action.Mark = MarkValueOf(egressNodes[EipNodeOf(policy)].Mark)

NoMarkRule(policy) ==
    \A fam \in EnabledFamilies : Count(MarkChainOf(fam), policy, fam) = 0

\* The endpoints of the local node, and no endpoint of another node.
SrcSetLocalOnly(policy) ==
    \A fam \in EnabledFamilies :
        /\ ipsets[SrcSetOf(policy, fam)].members = ExpectedSrc(policy, fam)
        /\ ~EipOnLocalNode(policy)

\* C13 as stated: after the EIP of a policy has moved from the local node to
\* a remote node and the gateway event has been reconciled successfully, the
\* policy has no rule in the SNAT chain, exactly one rule in the mark chain
\* with the mark of the new gateway node, and a src set that holds the
\* endpoints of the local node and none of another node.
C13_Rebind ==
    [][\A policy \in PolicyIds :
          RebindReconciled(policy) =>
              (NoSnatRule(policy) /\ OneMarkRule(policy) /\ SrcSetLocalOnly(policy))']_vars

\* C13 amended: the mark rule is there when the EgressNode object of the new
\* gateway node can be read; when it cannot, the policy has no mark rule.
C13_RebindWhenNodeKnown ==
    [][\A policy \in PolicyIds :
          RebindReconciled(policy) =>
              (/\ NoSnatRule(policy)
               /\ SrcSetLocalOnly(policy)
               /\ IF egressNodes[EipNodeOf(policy)].exists
                  THEN OneMarkRule(policy)
                  ELSE NoMarkRule(policy))']_vars

C13_Witness ==
    /\ last.op = "EgressGateway" /\ ~last.err /\ last.after.op = "rebind"
    /\ NoSnatRule(last.after.policy)
    /\ OneMarkRule(last.after.policy)
    /\ \E fam \in EnabledFamilies : ipsets[SrcSetOf(last.after.policy, fam)].members # {}

\* ------------------------------------------------------------------------
\* C14
\* ------------------------------------------------------------------------

\* A reconciler has been entered, or has just returned.
Dispatched(w) == calls[w].pc = "dispatch"
InInit(w) == calls[w].pc = "init"

\* C14: no call of Reconcile reaches the switch on the request kind, and no
\* reconciler returns, before a first rebuild has returned success; a call
\* whose rebuild failed runs the rebuild again and leaves the initializer
\* only with a successful rebuild; at most one call is in the initializer,
\* none once it has succeeded, so that one call alone executes its body.
C14_OnceOnly ==
    /\ [](\A w \in Workers : Dispatched(w) => doOnce)
    /\ [](Cardinality({ w \in Workers : InInit(w) }) <= 1)
    /\ [](doOnce => \A w \in Workers : ~InInit(w))
    /\ [][/\ doOnce => doOnce'
          /\ (last' # last /\ last'.op \notin {"init", "change"}) => doOnce
          /\ \A w \in Workers :
               InInit(w) => (IF last'.op = "init" /\ last'.err
                             THEN InInit(w)' /\ ~doOnce'
                             ELSE InInit(w)' \/ (doOnce' /\ Dispatched(w)'))]_vars

C14_Witness ==
    /\ doOnce
    /\ last.op = "init" /\ ~last.err /\ last.after.op = "init"
    /\ \E w \in Workers, v \in Workers :
         calls[w].pc = "dispatch" /\ calls[v].pc = "lock"

\* ------------------------------------------------------------------------
\* C15
\* ------------------------------------------------------------------------

\* The chain that owns the rule of a bound policy.
OwningChain(policy, fam) ==
    IF EipOnLocalNode(policy) THEN SnatChainOf(fam) ELSE MarkChainOf(fam)

\* C15: after a successful upsert reconcile of a bound policy, the kernel
\* holds the policy's rule in its owning chain (the SNAT chain when the EIP
\* is on the local node, the mark chain otherwise), and the rule's
\* destination match is the one the policy's present destSubnets asks for:
\* NOT in the cluster-ignore set when destSubnets is empty, in the
\* policy's dst set otherwise.
C15_UpsertRuleUpToDate ==
    \A policy \in PolicyIds :
        (PolicyPassDone(policy) /\ ~PolicyDeleted(policy) /\ policy \in BoundPolicies) =>
            \A fam \in EnabledFamilies :
                /\ Count(OwningChain(policy, fam), policy, fam) = 1
                /\ \A i \in RulesFor(OwningChain(policy, fam), policy, fam) :
                     OwningChain(policy, fam)[i].Match = ExpectedMatch(policy, fam)

\* ------------------------------------------------------------------------
\* C16
\* ------------------------------------------------------------------------

\* C16: findDiff of a list with itself returns an empty toAdd and an empty
\* toDel, whatever the list holds: entries with a /32 or /128 suffix and
\* networks written with host bits included.
C16_DiffOfSameListEmpty ==
    (output.done /\ input.oldList = input.newList) =>
        (output.toAdd = <<>> /\ output.toDel = <<>>)

\* ------------------------------------------------------------------------
\* C17
\* ------------------------------------------------------------------------

Canonicalize(list) == { CanonicalSubnet(x) : x \in Range(list) }

\* C17: for any old list A and new list B, A with toAdd added and toDel
\* removed is canonicalize(B) as a set; toAdd holds exactly the members of
\* canonicalize(B) that are not in A, toDel exactly the members of A that
\* are not in canonicalize(B).
C17_DiffAppliedIsCanonicalNew ==
    output.done =>
        /\ (Range(input.oldList) \cup Range(output.toAdd)) \ Range(output.toDel)
              = Canonicalize(input.newList)
        /\ Range(output.toAdd) = Canonicalize(input.newList) \ Range(input.oldList)
        /\ Range(output.toDel) = Range(input.oldList) \ Canonicalize(input.newList)

\* ------------------------------------------------------------------------
\* C18
\* ------------------------------------------------------------------------

\* The name of the policy's set of one kind and stack, among its set names.
SetNameOf(sets, kind, stack) ==
    (CHOOSE set \in Range(sets) : set.Kind = kind /\ set.Stack = stack).Name

\* C18: for each of the four prefixes and every policy key, the set name is
\* 31 characters long, starts with the prefix and goes on with the first
\* 17 (31 minus the length of the prefix) hex characters of the SHA-1 digest
\* of the key; the mark rule and the SNAT rule of a policy name, per family,
\* the src set and the dst set that buildIPSetNamesByPolicy names.
C18_SetNameDerivation ==
    output.done =>
        /\ Len(output.name) = 31
        /\ SubSeq(output.name, 1, Len(input.prefix)) = input.prefix
        /\ SubSeq(output.name, Len(input.prefix) + 1, Len(output.name))
             = SubSeq(Sha1Hex(RuleName(input.policy)), 1, 31 - Len(input.prefix))
        /\ output.name \in { set.Name : set \in Range(output.sets) }
        /\ \A v \in {4, 6} :
             LET stack == IF v = 4 THEN IPv4 ELSE IPv6
             IN /\ output.markRule[v].Match.SourceIPSet = SetNameOf(output.sets, IPSrc, stack)
                /\ output.markRule[v].Match.DestIPSet = SetNameOf(output.sets, IPDst, stack)
                /\ output.eipRule[v].Match.SourceIPSet = SetNameOf(output.sets, IPSrc, stack)
                /\ output.eipRule[v].Match.DestIPSet = SetNameOf(output.sets, IPDst, stack)

\* sha1("ns1-app") = d8934174b5b16becd8661af900ef5a9fed315df0
C18_Witness ==
    /\ output.done
    /\ input.prefix = "egress-dst-v6-"
    /\ input.policy = P1
    /\ output.name = "egress-dst-v6-d8934174b5b16becd"
    /\ output.eipRule[6].Match.DestIPSet = output.name

\* ------------------------------------------------------------------------
\* C19
\* ------------------------------------------------------------------------

\* The request that names the object of the event under its own kind.
OwnRequest == [Namespace |-> pathJoin(input.kind, input.ev.new.Namespace), Name |-> input.ev.new.Name]

\* C19: an event of an EgressPolicy or EgressClusterPolicy adds a request
\* when it is an update or a delete and none when it is a create or a
\* generic event; an event of a slice of either kind adds no request unless
\* it is an update, and an update of a slice that names a policy adds one;
\* every event of an EgressGateway or EgressClusterInfo, of whatever type,
\* adds the request of its object.
C19_RouterFiltering ==
    output.done =>
        /\ input.kind \in {"EgressPolicy", "EgressClusterPolicy"} =>
             /\ input.ev.type \in {"Create", "Generic"} => output.requests = <<>>
             /\ input.ev.type \in {"Update", "Delete"} => output.requests = <<OwnRequest>>
        /\ input.kind \in SliceKinds =>
             /\ input.ev.type \in {"Create", "Delete", "Generic"} => output.requests = <<>>
             /\ (input.ev.type = "Update" /\ GetLabel(input.ev.new, LabelPolicyName).ok)
                  => Len(output.requests) >= 1
        /\ input.kind \in {"EgressGateway", "EgressClusterInfo"} =>
             output.requests = <<OwnRequest>>

C19_Witness ==
    /\ output.done
    /\ input.kind = "EgressPolicy"
    /\ input.ev.type = "Delete"
    /\ input.ev.new.Namespace = "ns1"
    /\ input.ev.new.Name = "app"
    /\ output.requests = << [Namespace |-> "EgressPolicy/ns1", Name |-> "app"] >>

\* ------------------------------------------------------------------------
\* C20
\* ------------------------------------------------------------------------

SliceUpdated == output.done /\ input.kind \in SliceKinds /\ input.ev.type = "Update"

\* The request of the policy n of namespace ns ("" for a cluster policy).
PolicyRequest(ns, n) ==
    [Namespace |-> IF ns = "" THEN "EgressClusterPolicy" ELSE "EgressPolicy/" \o ns, Name |-> n]

\* The policy names that the versions of the updated slice carry.
NamedPolicies ==
    { GetLabel(obj, LabelPolicyName).val :
        obj \in { x \in {input.ev.old, input.ev.new} : GetLabel(x, LabelPolicyName).ok } }

\* C20 as stated: an update of a slice whose label names the policy n adds
\* exactly one request, with the namespace field "EgressPolicy/ns" for a
\* slice of namespace ns and "EgressClusterPolicy" for a cluster-scoped
\* slice, and the name n; an update of a slice without the label adds none.
C20_SliceRemapped ==
    SliceUpdated =>
        LET policyName == GetLabel(input.ev.new, LabelPolicyName)
        IN IF policyName.ok
           THEN output.requests = << PolicyRequest(input.ev.new.Namespace, policyName.val) >>
           ELSE output.requests = <<>>

\* C20, amended: an update of a slice adds one request per policy name that
\* its old or its new version carries, with the namespace field
\* "EgressPolicy/ns" or "EgressClusterPolicy" and that name: exactly one
\* when both versions name n, none when neither version carries the label.
C20_SliceRemappedPerVersion ==
    SliceUpdated =>
        /\ Range(output.requests) = { PolicyRequest(input.ev.new.Namespace, n) : n \in NamedPolicies }
        /\ Len(output.requests) = Cardinality(NamedPolicies)
        /\ \A n \in ObjectNames :
             (GetLabel(input.ev.old, LabelPolicyName) = [ok |-> TRUE, val |-> n]
              /\ GetLabel(input.ev.new, LabelPolicyName) = [ok |-> TRUE, val |-> n])
                => output.requests = << PolicyRequest(input.ev.new.Namespace, n) >>
        /\ (~GetLabel(input.ev.old, LabelPolicyName).ok /\ ~GetLabel(input.ev.new, LabelPolicyName).ok)
             => output.requests = <<>>

C20_Witness ==
    /\ SliceUpdated
    /\ input.kind = "EgressEndpointSlice"
    /\ input.ev.new.Namespace = "ns2"
    /\ input.ev.new.Name = "web"
    /\ GetLabel(input.ev.old, LabelPolicyName) = [ok |-> TRUE, val |-> "app"]
    /\ GetLabel(input.ev.new, LabelPolicyName) = [ok |-> TRUE, val |-> "app"]
    /\ output.requests = << [Namespace |-> "EgressPolicy/ns2", Name |-> "app"] >>

\* ------------------------------------------------------------------------
\* C21
\* ------------------------------------------------------------------------

\* The pass that completed last was the delete path of the policy.
DeletePassDone(policy) ==
    /\ last.op \in {"EgressPolicy", "EgressClusterPolicy"}
    /\ last.policy = policy
    /\ PolicyDeleted(policy)
    /\ fault # Failing("GetPolicy", RuleName(policy))

\* C21: a reconcile of a policy that is gone or has its deletion timestamp
\* returns no error, whichever of the policy's four sets are missing from
\* the kernel or from the agent's cache.
C21_DeleteNeverFailsOnAbsentSets ==
    \A policy \in PolicyIds : DeletePassDone(policy) => ~last.err

\* The delete path has run for ns1/app while a set of the policy was not in
\* the cache (it is still in the kernel) and another was not in the kernel.
C21_Witness ==
    /\ DeletePassDone(P1)
    /\ ~last.err
    /\ \E name \in PolicySetNames(P1) : ipsets[name].exists
    /\ \E name \in PolicySetNames(P1) : ~ipsets[name].exists

\* ------------------------------------------------------------------------
\* C22
\* ------------------------------------------------------------------------

\* C22: when a rebuild has committed its rules, every set that a committed
\* rule names (the src and dst set of a policy, the cluster-ignore set of
\* the family for a policy without destSubnets) is in the kernel: the pass
\* ensured it before it applied the tables.
C22_SetsEnsuredBeforeRules ==
    RebuildRan =>
        \A name \in AllSetNames : Referenced(kernelTables, name) => ipsets[name].exists

\* ------------------------------------------------------------------------
\* C23
\* ------------------------------------------------------------------------

\* The step is a run of the delete path for the policy.
DeletePassStep(policy) ==
    /\ last'.op \in {"EgressPolicy", "EgressClusterPolicy"}
    /\ last'.policy = policy
    /\ PolicyDeleted(policy)

\* C23: when the delete path calls DestroySet on a set of the policy (a set
\* of the cache), no rule of the agent's table snapshots names the set any
\* more, and none of the kernel's chains does: the rule of the policy was
\* removed and the removal applied before.
C23_RulesRemovedBeforeSets ==
    [][\A policy \in PolicyIds :
          DeletePassStep(policy) =>
              \A name \in PolicySetNames(policy) :
                  name \in ipsetMap =>
                      ~Referenced(tables, name) /\ ~Referenced(kernelTables, name)]_vars

\* ------------------------------------------------------------------------
\* C24
\* ------------------------------------------------------------------------

\* A reconcile has completed, and it is the handler that completed last.
PassDone == last.op \in {"init", "EgressGateway", "EgressPolicy", "EgressClusterPolicy"}

\* C24: a reconcile that met a failing backend call (an API list or get, the
\* EgressNode fetch of the rebuild included, a set call, an Apply) returns an
\* error.
C24_FailureMetMeansError == PassDone /\ met => last.err

\* ------------------------------------------------------------------------
\* C25
\* ------------------------------------------------------------------------

\* The step is a rebuild that met the failing call, a call on a set.
RebuildMetSetFailure ==
    /\ last'.op \in {"init", "EgressGateway"}
    /\ met'
    /\ fault' = fault
    /\ fault.call \in {"CreateSet", "ListEntries", "AddEntry", "DelEntry"}

\* C25: a rebuild that fails on a set of one policy returns an error, and
\* has still refreshed the src sets and installed the rule of every other
\* bound policy.
C25_OtherPoliciesStillServed ==
    [][RebuildMetSetFailure =>
          /\ last'.err
          /\ \A policy \in BoundPolicies :
                fault.on \notin PolicySetNames(policy) =>
                    \A fam \in EnabledFamilies :
                        /\ ipsets'[SrcSetOf(policy, fam)].exists
                        /\ ipsets'[SrcSetOf(policy, fam)].members = ExpectedSrc(policy, fam)
                        /\ \E k \in TableKeys, c \in ChainNames :
                              \E i \in DOMAIN kernelTables'[k][c] :
                                  kernelTables'[k][c][i].Match.SourceIPSet
                                      = SrcSetOf(policy, fam)]_vars

\* ------------------------------------------------------------------------
\* C26
\* ------------------------------------------------------------------------

\* The step is an upsert reconcile of the policy, whose destSubnets are well
\* formed, while no EgressGateway is found for it.
UpsertWithoutGateway(policy) ==
    /\ last'.op \in {"EgressPolicy", "EgressClusterPolicy"}
    /\ last'.policy = policy
    /\ ~PolicyDeleted(policy)
    /\ Len(GatewayNamed(policy.Name)) = 0
    /\ ~getDstCIDR(policies[policy].DestSubnet).err

\* The addresses of the policy's endpoints on the local node.
LocalSrc(policy, fam) ==
    UNION { Range(IF fam = 4 THEN e.IPv4 ELSE e.IPv6) :
            e \in { x \in UNION { Range(ep.Endpoints) :
                                  ep \in { y \in Range(slices) :
                                           ~y.Deleting /\ y.PolicyLabel = policy.Name } } :
                    x.Node = NodeName } }

\* C26: an upsert reconcile of a policy whose gateway is not found does not
\* fail, and leaves the src sets with the local endpoints and the dst sets
\* with the canonical destSubnets.
C26_MissingGatewayIsNoWork ==
    [][\A policy \in PolicyIds :
          UpsertWithoutGateway(policy) =>
              /\ ~last'.err
              /\ \A fam \in EnabledFamilies :
                    /\ ipsets'[SrcSetOf(policy, fam)].members = LocalSrc(policy, fam)
                    /\ ipsets'[DstSetOf(policy, fam)].members =
                          { CanonicalSubnet(x) :
                              x \in { y \in Range(PolicyDestSubnet(policy)) : y.fam = fam } }]_vars

\* ------------------------------------------------------------------------
\* C27
\* ------------------------------------------------------------------------

\* The EIP of the policy is on another node, whose EgressNode is not there.
NodeMissing(policy) ==
    EipOnRemoteNode(policy) /\ ~egressNodes[EipNodeOf(policy)].exists

\* A rebuild over a gateway list that is not empty has completed last.
RebuildCompleted == last.op \in {"init", "EgressGateway"} /\ Len(gateways) > 0

\* The destSubnets of every bound policy are well formed.
SetsRefreshable ==
    \A policy \in BoundPolicies : ~getDstCIDR(PolicyDestSubnet(policy)).err

\* C27: a rebuild that cannot fetch the EgressNode of a remote policy's node
\* does not fail for it; the policy has no mark rule, every other remote
\* policy has its mark rule and every local policy with an EIP its SNAT rule,
\* in the chains of the kernel.
C27_MissingNodeSkipsOnlyItsPolicy ==
    (RebuildCompleted /\ \E missing \in BoundPolicies : NodeMissing(missing)) =>
        /\ SetsRefreshable => ~last.err
        /\ ~last.err =>
             \A policy \in BoundPolicies : \A fam \in EnabledFamilies :
                /\ NodeMissing(policy) => Count(MarkChainOf(fam), policy, fam) = 0
                /\ (EipOnRemoteNode(policy) /\ ~NodeMissing(policy)) =>
                       Count(MarkChainOf(fam), policy, fam) = 1
                /\ (EipOnLocalNode(policy) /\ (EipOf(policy, 4) # "" \/ EipOf(policy, 6) # "")) =>
                       Count(SnatChainOf(fam), policy, fam) = 1

C27_Witness ==
    /\ RebuildCompleted
    /\ ~last.err
    /\ \E missing \in BoundPolicies, other \in BoundPolicies, fam \in EnabledFamilies :
         /\ NodeMissing(missing) /\ Count(MarkChainOf(fam), missing, fam) = 0
         /\ EipOnRemoteNode(other) /\ Count(MarkChainOf(fam), other, fam) = 1

\* ------------------------------------------------------------------------
\* C28
\* ------------------------------------------------------------------------

\* An entry of the list is no CIDR.
Malformed(list) == \E i \in DOMAIN list : ParseCIDR(list[i]).err

\* The step is a reconcile of the policy, which is there with a destSubnets
\* entry that is no CIDR.
MalformedPass(policy) ==
    /\ last'.op \in {"EgressPolicy", "EgressClusterPolicy"}
    /\ last'.policy = policy
    /\ policies[policy].exists
    /\ Malformed(policies[policy].DestSubnet)

SetsUntouched(policy) ==
    \A name \in PolicySetNames(policy) : ipsets'[name] = ipsets[name]

\* C28 as stated: a reconcile of a policy with a malformed destSubnets entry
\* returns an error and leaves the four sets of the policy as they were.
C28_MalformedCidrFails ==
    [][\A policy \in PolicyIds :
          MalformedPass(policy) => last'.err /\ SetsUntouched(policy)]_vars

\* C28 amended: so does an upsert reconcile, of a policy without a deletion
\* timestamp; no set is created, no member added or removed.
C28_MalformedCidrFailsUpsert ==
    [][\A policy \in PolicyIds :
          (MalformedPass(policy) /\ ~policies[policy].deleting) =>
              last'.err /\ SetsUntouched(policy)]_vars

C28_Witness ==
    /\ last.op = "EgressPolicy" /\ last.policy = P1 /\ last.err
    /\ policies[P1].exists /\ ~policies[P1].deleting
    /\ Malformed(policies[P1].DestSubnet)
    /\ \E fam \in EnabledFamilies :
         /\ ipsets[DstSetOf(P1, fam)].exists
         /\ ipsets[DstSetOf(P1, fam)].members # {}

\* ------------------------------------------------------------------------
\* C29
\* ------------------------------------------------------------------------

\* The upsert reconcile of the policy that completed last was stopped by a
\* failing backend call, and the step is an upsert reconcile of the same
\* policy that meets no failing call; nothing of the cluster changed between.
RollForward(policy) ==
    /\ last.op \in {"EgressPolicy", "EgressClusterPolicy"}
    /\ last.policy = policy
    /\ last.err /\ met
    /\ ~PolicyDeleted(policy)
    /\ last'.op = last.op
    /\ last'.policy = policy
    /\ ~met'

\* C29: the complete pass after the partial one succeeds, and ends with the
\* src and dst sets of every enabled family holding the desired members.
C29_RollForward ==
    [][\A policy \in PolicyIds :
          RollForward(policy) =>
              /\ ~last'.err
              /\ \A fam \in EnabledFamilies :
                    /\ ipsets'[SrcSetOf(policy, fam)].members = ExpectedSrc(policy, fam)
                    /\ ipsets'[DstSetOf(policy, fam)].members =
                          { CanonicalSubnet(x) :
                              x \in { y \in Range(PolicyDestSubnet(policy)) : y.fam = fam } }]_vars

\* ------------------------------------------------------------------------
\* C30
\* ------------------------------------------------------------------------

\* The agent as it is after a restart and a first rebuild that had nothing
\* to do with the sets of the policies: the same kernel, an empty set cache.
FreshAgent == [Agent EXCEPT !.ipsetMap = {}]

\* C30: a reconcile of a policy key, upsert or delete, leaves the sets and
\* the chains of the kernel as the same reconcile leaves them when it is run
\* by an agent with an empty set cache on the same objects and the same
\* kernel.
C30_EdgeInsensitive ==
    [][\A policy \in PolicyIds :
          (last'.op \in {"EgressPolicy", "EgressClusterPolicy"} /\ last'.policy = policy) =>
              \E fresh \in {Handle(last'.op, policy, FreshAgent, <<>>, <<>>)} :
                  /\ ipsets' = fresh.st.ipsets
                  /\ kernelTables' = fresh.st.kernelTables]_vars

\* ------------------------------------------------------------------------
\* C31
\* ------------------------------------------------------------------------

\* A rebuild and a reconcile of the policy, run by two workers, have both
\* returned; the policy is one the rebuild handles.
BothReturned(wg, wp, policy) ==
    /\ calls[wg].pc = "done" /\ calls[wg].kind = "EgressGateway"
    /\ calls[wp].pc = "done" /\ calls[wp].req = policy
    /\ calls[wp].kind \in {"EgressPolicy", "EgressClusterPolicy"}
    /\ policy \in BoundPolicies

\* C31: when a gateway rebuild and a reconcile of a policy the rebuild
\* handles have run in parallel, one backend call at a time, both have
\* returned without error and the src and dst sets of the policy hold the
\* desired members.
C31_ParallelPassesConverge ==
    \A wg \in Workers, wp \in Workers, policy \in PolicyIds :
        BothReturned(wg, wp, policy) =>
            /\ ~calls[wg].err /\ ~calls[wp].err
            /\ \A fam \in EnabledFamilies :
                  /\ ipsets[SrcSetOf(policy, fam)].members = ExpectedSrc(policy, fam)
                  /\ ipsets[DstSetOf(policy, fam)].members =
                        { CanonicalSubnet(x) :
                            x \in { y \in Range(PolicyDestSubnet(policy)) : y.fam = fam } }

\* ------------------------------------------------------------------------
\* C32
\* ------------------------------------------------------------------------

\* C32: after a successful upsert pass for a policy, the src set and the dst
\* set of every enabled family exist in the kernel, whatever was destroyed
\* behind the agent before the pass.
C32_SetsExistAfterUpsert ==
    \A policy \in PolicyIds :
        UpsertDone(policy) =>
            \A fam \in EnabledFamilies :
                ipsets[SrcSetOf(policy, fam)].exists /\ ipsets[DstSetOf(policy, fam)].exists

\* ------------------------------------------------------------------------
\* C33
\* ------------------------------------------------------------------------

\* The step is a gateway rebuild over a gateway list that is not empty.
RebuildStep == last'.op \in {"init", "EgressGateway"} /\ Len(gateways) > 0

\* C33: a rebuild creates no set and leaves no mark or SNAT rule in the
\* kernel for a policy that a gateway status lists while its object does
\* not exist.
C33_NoWorkForAbsentPolicy ==
    [][RebuildStep =>
          \A policy \in BoundPolicies :
              ~policies[policy].exists =>
                  /\ \A name \in PolicySetNames(policy) :
                        ipsets'[name].exists => ipsets[name].exists
                  /\ \A fam \in EnabledFamilies :
                        \A chain \in {kernelTables'[<<"mangle", fam>>][MarkChain],
                                      kernelTables'[<<"nat", fam>>][SnatChain]} :
                            \A i \in DOMAIN chain :
                                chain[i].Match.SourceIPSet # SrcSetOf(policy, fam)]_vars

\* ------------------------------------------------------------------------
\* C34
\* ------------------------------------------------------------------------

\* The node and the flag the rebuild takes for a policy of a gateway status.
RebuildNodeOf(policy) ==
    IF policy \in DOMAIN snatPolicies THEN snatPolicies[policy].NodeName
    ELSE unSnatPolicies[policy].NodeName
RebuildFlagOf(policy) == policy \in DOMAIN snatPolicies

\* The node the policy reconciler takes for it.
ReconcilerNodeOf(policy) == GatewayNodeOf(GatewayNamed(policy.Name)[1], policy)

\* C34: after a successful upsert reconcile of a policy that a gateway
\* status lists, the node and the flag the reconciler took are those the
\* rebuild takes, and the src sets hold the members the rebuild leaves.
C34_SameOwnerOnBothPaths ==
    \A policy \in BoundPolicies :
        (PolicyPassDone(policy) /\ ~PolicyDeleted(policy)) =>
            /\ ReconcilerNodeOf(policy) = RebuildNodeOf(policy)
            /\ (ReconcilerNodeOf(policy) = NodeName) = RebuildFlagOf(policy)
            /\ \A fam \in EnabledFamilies :
                  ipsets[SrcSetOf(policy, fam)].members = ExpectedSrc(policy, fam)

\* ------------------------------------------------------------------------
\* C35
\* ------------------------------------------------------------------------

\* C35: two distinct policy identities have different keys and no set name
\* in common.
C35_KeysAreDistinct ==
    output.done =>
        /\ output.keyA # output.keyB
        /\ \A i \in DOMAIN output.setsA, j \in DOMAIN output.setsB :
              output.setsA[i].Name # output.setsB[j].Name

\* ------------------------------------------------------------------------
\* C36
\* ------------------------------------------------------------------------

\* The addresses of the endpoints of the slices of a namespace.
SliceIPs(inNamespace(_), fam) ==
    UNION { Range(IF fam = 4 THEN e.IPv4 ELSE e.IPv6) :
            e \in UNION { Range(ep.Endpoints) :
                          ep \in { x \in Range(slices) : inNamespace(x.Namespace) } } }

\* C36: the src sets of a namespaced policy hold no address that only
\* endpoints of slices of other namespaces have.
C36_SrcSetOfOwnNamespace ==
    \A policy \in { p \in PolicyIds : p.Namespace # "" } : \A fam \in EnabledFamilies :
        LET Own(ns) == ns = policy.Namespace
            Other(ns) == ns # policy.Namespace
        IN ipsets[SrcSetOf(policy, fam)].members
               \cap (SliceIPs(Other, fam) \ SliceIPs(Own, fam)) = {}

\* ------------------------------------------------------------------------
\* C37
\* ------------------------------------------------------------------------

\* A successful reconcile of the EgressClusterInfo that follows, with
\* nothing in between, a successful reconcile of the same object.
InfoDoneAgain ==
    /\ InfoDone
    /\ last'.op = "EgressClusterInfo" /\ ~last'.err
    /\ clusterInfo' = clusterInfo

\* C37: reconciling the same unchanged EgressClusterInfo a second time in a
\* row adds nothing to and removes nothing from either cluster-ignore set:
\* each holds the members it held after the first reconcile.
C37_SecondInfoPassChangesNothing ==
    [][InfoDoneAgain =>
         \A fam \in {4, 6} :
             ipsets'[IgnoreSetOf(fam)].members = ipsets[IgnoreSetOf(fam)].members]_vars

\* ------------------------------------------------------------------------
\* C38
\* ------------------------------------------------------------------------

\* The sets one run of the member calls works on: the sets of the policy for
\* updatePolicyIPSet, the one set of the family for the cluster-ignore
\* reconciler.
RunSetsOf(name) ==
    IF name \in {EgressClusterCIDRIPv4, EgressClusterCIDRIPv6} THEN {name}
    ELSE UNION { PolicySetNames(policy) : policy \in { q \in PolicyIds : name \in PolicySetNames(q) } }

\* The step is a handler whose AddEntry on the set fault.on failed.
AddEntryRefused ==
    /\ last'.op \in {"init", "EgressPolicy", "EgressClusterInfo"}
    /\ fault.call = "AddEntry"
    /\ fault' = fault
    /\ met'

\* C38: the additions of a pass are issued before its removals.  When an
\* AddEntry of updatePolicyIPSet fails, no DelEntry has been issued on any
\* set of the policy; when an AddEntry of the cluster-ignore reconciler
\* fails, no DelEntry has been issued on the set of that family: the sets
\* still hold every member they held before the pass.
C38_AddsBeforeDels ==
    [][AddEntryRefused =>
         \A name \in RunSetsOf(fault.on) :
             ipsets[name].members \subseteq ipsets'[name].members]_vars

\* A pass was stopped by the refused addition while one of its sets holds a
\* member the pass would have removed: a rebuild with the pod address of a
\* deleted slice in the src set of ns1/app, or a cluster-ignore reconcile
\* with a listed member in the set of the family.
C38_Witness ==
    /\ met /\ last.err /\ fault.call = "AddEntry"
    /\ \/ /\ last.op = "init"
          /\ slices[1].Deleting
          /\ ipsets[SrcSetOf(P1, 4)].members # {}
       \/ /\ last.op = "EgressClusterInfo"
          /\ ipsets[fault.on].members # {}

\* ------------------------------------------------------------------------
\* C39
\* ------------------------------------------------------------------------

\* The number four hex digits write.
WordOf(s) == ((HexVal(s[1]) * 16 + HexVal(s[2])) * 16 + HexVal(s[3])) * 16 + HexVal(s[4])

\* C39: parseMark returns the value of every mark written as "0x" and eight
\* hex digits, from 0x00000000 to 0xffffffff, and an error for a string
\* that is no hex number of at most 32 bits.
C39_ParseMarkWholeRange ==
    output.done =>
        /\ input.mark \in Marks32 =>
              /\ ~output.err
              /\ output.val = U32(WordOf(SubSeq(input.mark, 3, 6)), WordOf(SubSeq(input.mark, 7, 10)))
        /\ input.mark \in NoMarks => output.err

\* ------------------------------------------------------------------------
\* C40
\* ------------------------------------------------------------------------

DisabledFamilies == {4, 6} \ EnabledFamilies

\* C40: no step of the agent creates or changes a per-policy set of a
\* disabled family, nor a mangle, nat or filter table of that family,
\* neither the table the agent keeps nor the one in the kernel.
C40_DisabledFamilyUntouched ==
    [][\A fam \in DisabledFamilies :
          /\ \A policy \in PolicyIds : \A name \in {SrcSetOf(policy, fam), DstSetOf(policy, fam)} :
                /\ ipsets'[name] = ipsets[name]
                /\ ~ipsets'[name].exists
                /\ name \notin ipsetMap'
          /\ \A t \in TableNames :
                /\ tables'[<<t, fam>>] = tables[<<t, fam>>]
                /\ kernelTables'[<<t, fam>>] = kernelTables[<<t, fam>>]
                /\ kernelTables'[<<t, fam>>] = EmptyTable]_vars

\* With one family disabled, an upsert pass of ns1/app has completed: the
\* sets of the enabled family exist, its mark chain holds a rule.
C40_Witness ==
    /\ DisabledFamilies # {}
    /\ UpsertDone(P1)
    /\ \A fam \in EnabledFamilies :
          /\ ipsets[SrcSetOf(P1, fam)].members # {}
          /\ kernelTables[<<"mangle", fam>>] # EmptyTable

====
